---- MODULE Spec2Model ----
(***************************************************************************)
(* G-Excel autofill: the content script's Filler (fillField, fillRow,      *)
(* fillBatch, stop), the Validator it calls, the Mapper / Matcher that     *)
(* build the column -> field mapping, and the popup controller that        *)
(* drives them.                                                            *)
(*                                                                         *)
(* JavaScript strings are sequences of one-character strings; the values   *)
(* undefined and null and a missing DOM element are one-element sequences  *)
(* holding a token no string contains.  A JavaScript object used as a map  *)
(* (a mapping, manual overrides) is a sequence of entries in insertion     *)
(* order, which is the order Object.entries walks.                         *)
(***************************************************************************)
EXTENDS Integers, Sequences, FiniteSets, TLC

(* ------------------------------ bounds -------------------------------- *)

\* longest list of rows a caller sends to fillBatch
MaxRows == 3
\* fillBatch invocations in one session
MaxBatches == 2
\* click handlers the popup runs in one session
MaxTasks == 4
\* columns of the sheet handed to autoMap
MaxCols == 3
\* manual edits handed to mergeMappings
MaxEdits == 2
MaxSaved == 2
\* Storage calls made in one session
MaxOps == 2
MaxPreviews == 2
MaxCalls == 2
\* the longest word over the alphabet handed to the string utilities
MaxWord == 3

(* --------------------------- JavaScript values ------------------------ *)

UNDEFINED == <<"<undefined>">>
NULL == <<"<null>">>
\* document.querySelector found no element
ABSENT == <<"<absent>">>

\* a JavaScript number (an integer), as a tag followed by its decimal digits;
\* every other value is a string, UNDEFINED or NULL
Num(digits) == <<"<number>">> \o digits

IsNum(v) == v # <<>> /\ v[1] = "<number>"

\* String(value)
String(v) ==
    IF v = UNDEFINED THEN <<"u", "n", "d", "e", "f", "i", "n", "e", "d">>
    ELSE IF v = NULL THEN <<"n", "u", "l", "l">>
    ELSE IF IsNum(v) THEN Tail(v)
    ELSE v

\* !value : undefined, null, the empty string and the number 0 are falsy
Falsy(v) == v = UNDEFINED \/ v = NULL \/ v = <<>> \/ v = Num(<<"0">>)

IsSpace(c) == c = " "

RECURSIVE TrimLeft(_)
TrimLeft(s) ==
    IF s # <<>> /\ IsSpace(Head(s)) THEN TrimLeft(Tail(s)) ELSE s

RECURSIVE TrimRight(_)
TrimRight(s) ==
    IF s # <<>> /\ IsSpace(s[Len(s)]) THEN TrimRight(SubSeq(s, 1, Len(s) - 1)) ELSE s

\* String.prototype.trim
Trim(s) == TrimRight(TrimLeft(s))

Upper ==
    << "A", "B", "C", "D", "E", "F", "G", "H", "I", "J", "K", "L", "M",
       "N", "O", "P", "Q", "R", "S", "T", "U", "V", "W", "X", "Y", "Z" >>

Lower ==
    << "a", "b", "c", "d", "e", "f", "g", "h", "i", "j", "k", "l", "m",
       "n", "o", "p", "q", "r", "s", "t", "u", "v", "w", "x", "y", "z" >>

\* [A-Z]
IsUpper(c) == \E k \in 1..Len(Upper) : Upper[k] = c

\* [a-z]
IsLower(c) == \E k \in 1..Len(Lower) : Lower[k] = c

\* String.prototype.toLowerCase
toLowerCase(s) ==
    [i \in 1..Len(s) |->
        IF IsUpper(s[i]) THEN Lower[CHOOSE k \in 1..Len(Upper) : Upper[k] = s[i]]
        ELSE s[i]] \o <<>>

(* ------------------------------ Validator ----------------------------- *)

\* [^\s@]+ : a non-empty run without whitespace or @
NoSpaceAtRun(s) ==
    /\ s # <<>>
    /\ \A k \in 1..Len(s) : ~IsSpace(s[k]) /\ s[k] # "@"

\* EMAIL_REGEX.test(s)
EMAIL_REGEX(s) ==
    \E i \in 1..Len(s) : \E j \in 1..Len(s) :
        /\ i < j
        /\ s[i] = "@"
        /\ s[j] = "."
        /\ NoSpaceAtRun(SubSeq(s, 1, i - 1))
        /\ NoSpaceAtRun(SubSeq(s, i + 1, j - 1))
        /\ NoSpaceAtRun(SubSeq(s, j + 1, Len(s)))

\* a ValidationResult; error "" and value UNDEFINED stand for an absent key
Valid(v) == [valid |-> TRUE, error |-> "", value |-> v]
Invalid(e) == [valid |-> FALSE, error |-> e, value |-> UNDEFINED]

validateRequired(value, field) ==
    IF field.required /\ (value = NULL \/ value = UNDEFINED \/ Trim(String(value)) = <<>>)
    THEN Invalid("Required field cannot be empty")
    ELSE Valid(UNDEFINED)

validateEmail(value) ==
    IF Falsy(value) \/ Trim(String(value)) = <<>> THEN Valid(value)
    ELSE IF ~EMAIL_REGEX(Trim(String(value))) THEN Invalid("Invalid email format")
    ELSE Valid(Trim(String(value)))

Digits == <<"0", "1", "2", "3", "4", "5", "6", "7", "8", "9">>

IsDigit(c) == \E d \in 1..10 : Digits[d] = c

DigitValue(c) == (CHOOSE d \in 1..10 : Digits[d] = c) - 1

\* String(value).replace(/\D/g, '')
DigitsOf(s) == SelectSeq(s, IsDigit)

validatePhone(value) ==
    IF Falsy(value) \/ Trim(String(value)) = <<>> THEN Valid(value)
    ELSE IF Len(DigitsOf(String(value))) < 7 \/ Len(DigitsOf(String(value))) > 15
    THEN Invalid("Invalid phone length")
    ELSE Valid(Trim(String(value)))

\* the longest run of digits s starts with
RECURSIVE DigitPrefix(_)
DigitPrefix(s) ==
    IF s # <<>> /\ IsDigit(Head(s)) THEN <<Head(s)>> \o DigitPrefix(Tail(s)) ELSE <<>>

RECURSIVE DigitsValue(_)
DigitsValue(ds) ==
    IF ds = <<>> THEN 0 ELSE DigitsValue(SubSeq(ds, 1, Len(ds) - 1)) * 10 + DigitValue(ds[Len(ds)])

NaN == [nan |-> TRUE, n |-> 0]

\* parseFloat(value) on texts that hold an integer: leading white space and an
\* optional sign are read, then the digits; what follows them is ignored.
\* (Fractions and exponents are outside this model.)
parseFloat(value) ==
    LET s == TrimLeft(String(value))
        negative == s # <<>> /\ Head(s) = "-"
        signed == s # <<>> /\ (Head(s) = "-" \/ Head(s) = "+")
        ds == DigitPrefix(IF signed THEN Tail(s) ELSE s)
    IN IF ds = <<>> THEN NaN
       ELSE [nan |-> FALSE, n |-> IF negative THEN 0 - DigitsValue(ds) ELSE DigitsValue(ds)]

RECURSIVE NatDigits(_)
NatDigits(n) ==
    IF n < 10 THEN <<Digits[n + 1]>> ELSE NatDigits(n \div 10) \o <<Digits[(n % 10) + 1]>>

\* the number n as a JavaScript value
NumOf(n) == Num(IF n < 0 THEN <<"-">> \o NatDigits(0 - n) ELSE NatDigits(n))

\* field.min / field.max: the attribute text, or NULL / UNDEFINED
Bound(attr) ==
    IF attr = UNDEFINED \/ attr = NULL THEN NaN ELSE parseFloat(attr)

validateNumber(value, field) ==
    IF value = NULL \/ value = UNDEFINED \/ Trim(String(value)) = <<>> THEN Valid(<<>>)
    ELSE LET num == parseFloat(value)
             min == Bound(field.min)
             max == Bound(field.max)
         IN IF num.nan THEN Invalid("Not a valid number")
            ELSE IF ~min.nan /\ num.n < min.n THEN Invalid("Below minimum")
            ELSE IF ~max.nan /\ num.n > max.n THEN Invalid("Above maximum")
            ELSE Valid(NumOf(num.n))

\* YYYY-MM-DD
IsIsoDate(str) ==
    /\ Len(str) = 10
    /\ str[5] = "-" /\ str[8] = "-"
    /\ \A k \in {1, 2, 3, 4, 6, 7, 9, 10} : IsDigit(str[k])
    /\ DigitsValue(SubSeq(str, 6, 7)) \in 1..12
    /\ DigitsValue(SubSeq(str, 9, 10)) \in 1..28

\* the values validateDate is modelled on: blank values, ISO dates and texts
\* without a digit.  (What new Date reads out of other texts with digits is
\* left to the engine's legacy date parser.)
DateModelled(value) ==
    \/ Falsy(value)
    \/ LET str == Trim(String(value)) IN
          \/ str = <<>>
          \/ IsIsoDate(str)
          \/ \A k \in 1..Len(str) : ~IsDigit(str[k])

\* validateDate on blank values, on ISO dates (read in a zone at or east of
\* UTC, where the local date of UTC midnight is the same day) and on texts
\* without a digit, which neither new Date nor parseFloat can read.
validateDate(value) ==
    IF Falsy(value) \/ Trim(String(value)) = <<>> THEN Valid(<<>>)
    ELSE LET str == Trim(String(value)) IN
         IF IsIsoDate(str)
         THEN Valid(SubSeq(str, 1, 4) \o <<"-">> \o SubSeq(str, 6, 7) \o <<"-">> \o SubSeq(str, 9, 10))
         ELSE Invalid("Invalid date format")

\* String.prototype.includes
IncludesText(s, sub) ==
    \E i \in 0..(Len(s) - Len(sub)) : SubSeq(s, i + 1, i + Len(sub)) = sub

\* the three tests of validateSelect, on strVal = String(value).trim().toLowerCase()
valueMatch(o, strVal) == toLowerCase(String(o.value)) = strVal

textMatch(o, strVal) == toLowerCase(Trim(String(o.text))) = strVal

partialMatch(o, strVal) ==
    \/ IncludesText(toLowerCase(String(o.text)), strVal)
    \/ IncludesText(strVal, toLowerCase(Trim(String(o.text))))

\* the three options.find calls of validateSelect: the index of the option
\* returned, or 0
selectMatch(options, strVal) ==
    LET first(P(_)) ==
            IF \E i \in 1..Len(options) : P(options[i])
            THEN CHOOSE i \in 1..Len(options) :
                    P(options[i]) /\ \A j \in 1..(i - 1) : ~P(options[j])
            ELSE 0
        byValue == first(LAMBDA o : valueMatch(o, strVal))
        byText == first(LAMBDA o : textMatch(o, strVal))
        byPart == first(LAMBDA o : partialMatch(o, strVal))
    IN IF byValue # 0 THEN byValue ELSE IF byText # 0 THEN byText ELSE byPart

\* validateSelect; options <<>> stands for an empty list and for no list
validateSelect(value, options) ==
    IF Falsy(value) \/ Trim(String(value)) = <<>> THEN Valid(<<>>)
    ELSE IF Len(options) = 0 THEN Valid(value)
    ELSE LET match == selectMatch(options, toLowerCase(Trim(String(value)))) IN
         IF match # 0 THEN Valid(options[match].value)
         ELSE Invalid("not in dropdown options")

\* the index of the first character of s for which P holds, or Len(s) + 1
FirstAt(s, P(_)) ==
    IF \E i \in 1..Len(s) : P(s[i])
    THEN CHOOSE i \in 1..Len(s) : P(s[i]) /\ \A j \in 1..(i - 1) : ~P(s[j])
    ELSE Len(s) + 1

\* new URL(str) succeeds: str starts with a scheme (letters, then a colon)
\* and, when "//" follows, names a host without white space.  (The model
\* reads texts of letters, digits, dots, colons, slashes and spaces.)
ParsesAsUrl(str) ==
    LET colon == FirstAt(str, LAMBDA c : c = ":")
        rest == SubSeq(str, colon + 1, Len(str))
        host == SubSeq(rest, 3, FirstAt(SubSeq(rest, 3, Len(rest)),
                                        LAMBDA c : c = "/") + 1)
    IN /\ colon \in 2..Len(str)
       /\ \A k \in 1..(colon - 1) : IsLower(str[k]) \/ IsUpper(str[k])
       /\ (Len(rest) >= 2 /\ rest[1] = "/" /\ rest[2] = "/") =>
              (host # <<>> /\ \A k \in 1..Len(host) : ~IsSpace(host[k]))

HttpsPrefix == <<"h", "t", "t", "p", "s", ":", "/", "/">>

validateUrl(value) ==
    IF Falsy(value) \/ Trim(String(value)) = <<>> THEN Valid(<<>>)
    ELSE LET str == Trim(String(value)) IN
         IF ParsesAsUrl(str) THEN Valid(str)
         ELSE IF ParsesAsUrl(HttpsPrefix \o str) THEN Valid(HttpsPrefix \o str)
         ELSE Invalid("Invalid URL format")

\* a dispatch that leaves the required check out
typeRule_Only(value, field, reqCheck, byType) == byType

\* `if (!reqCheck.valid) return reqCheck;` before the switch
typeRule(value, field, reqCheck, byType) ==
    IF ~reqCheck.valid THEN reqCheck ELSE byType

\* (field.type || 'text').toLowerCase(), on the type names of this model
typeOf(field) ==
    CASE field.type = "" -> "text"
      [] field.type = "EMAIL" -> "email"
      [] field.type = "Select-One" -> "select-one"
      [] OTHER -> field.type

\* the switch of Validator.validate
byTypeOf(value, field) ==
    LET type == typeOf(field) IN
    CASE type = "email" -> validateEmail(value)
      [] type = "tel" -> validatePhone(value)
      [] type \in {"number", "range"} -> validateNumber(value, field)
      [] type \in {"date", "datetime-local"} -> validateDate(value)
      [] type \in {"select", "select-one", "select-multiple"} ->
             validateSelect(value, field.options)
      [] type = "url" -> validateUrl(value)
      [] OTHER -> Valid(value)

\* Validator.validate: the required check, then the dispatch on the type
validate(value, field) ==
    typeRule(value, field, validateRequired(value, field), byTypeOf(value, field))

(* -------------------------------- Filler ------------------------------ *)

\* fieldMeta as fillRow builds it from mapInfo.field (absent field: text, optional)
NoField == [type |-> "", required |-> FALSE]

FieldMeta(mapInfo) ==
    [type |-> IF mapInfo.field.type = "" THEN "text" ELSE mapInfo.field.type,
     required |-> mapInfo.field.required]

\* a setter that adds the text to what the element holds
writeValue_Appends(current, finalValue) == current \o String(finalValue)

\* nativeSetter.call(element, String(finalValue)): the element's new value
writeValue(current, finalValue) == String(finalValue)

\* a lookup failure that is passed over as a skipped field
notFound_Skipped(d, selector) ==
    [success |-> TRUE, skipped |-> TRUE, error |-> "", dom |-> d]

\* `if (!element) return { success: false, error: ... }`
notFound(d, selector) ==
    [success |-> FALSE, skipped |-> FALSE, error |-> "Element not found: " \o selector,
     dom |-> d]

\* a fillField that validates before it looks at skipFilled
skipOrder_ValidateFirst(skip, validation, skipped, invalid, filled) ==
    IF ~validation.valid THEN invalid ELSE IF skip THEN skipped ELSE filled

\* the order of fillField's returns once the element is found: the skipFilled
\* test, then `if (!validation.valid)`, then the write
skipOrder(skip, validation, skipped, invalid, filled) ==
    IF skip THEN skipped ELSE IF ~validation.valid THEN invalid ELSE filled

\* Filler.fillField on the document d: the outcome and the document after it.
fillField(d, selector, value, fieldMeta, settings) ==
    IF d[selector] = ABSENT THEN notFound(d, selector)
    ELSE LET validation == validate(value, fieldMeta)
             finalValue == IF validation.value # UNDEFINED THEN validation.value ELSE value
         IN skipOrder(settings.skipFilled /\ d[selector] # <<>> /\ Trim(d[selector]) # <<>>,
                      validation,
                      [success |-> TRUE, skipped |-> TRUE, error |-> "", dom |-> d],
                      [success |-> FALSE, skipped |-> FALSE, error |-> validation.error,
                       dom |-> d],
                      [success |-> TRUE, skipped |-> FALSE, error |-> "",
                       dom |-> [d EXCEPT ![selector] = writeValue(@, finalValue)]])

\* rowData[column]
RowValue(rowData, column) ==
    IF column \in DOMAIN rowData THEN rowData[column] ELSE UNDEFINED

\* `if (settings.stopOnError)` after a failing entry
StopOnError_Ignored(settings) == FALSE

StopOnError(settings) == settings.stopOnError

\* One pass of fillRow's loop body, for the entry mapInfo.  acc.attempted lists
\* the columns fillField was called for; acc.returned is the early return.
fillRowEntry(mapInfo, rowData, settings, acc) ==
    IF mapInfo.selector = "" THEN acc
    ELSE LET result == fillField(acc.dom, mapInfo.selector,
                                 RowValue(rowData, mapInfo.column),
                                 FieldMeta(mapInfo), settings)
             seen == [acc EXCEPT !.dom = result.dom,
                                 !.attempted = Append(@, mapInfo.column)]
         IN IF result.skipped THEN [seen EXCEPT !.skipped = @ + 1]
            ELSE IF result.success THEN [seen EXCEPT !.filled = @ + 1]
            ELSE [seen EXCEPT !.errors = Append(@, [column |-> mapInfo.column,
                                                    selector |-> mapInfo.selector,
                                                    error |-> result.error]),
                              !.returned = StopOnError(settings)]

\* fillRow's loop over Object.entries(mapping) from entry k on.  (The set
\* binding evaluates the accumulator once per entry.)
RECURSIVE fillRowLoop(_, _, _, _, _)
fillRowLoop(mapping, rowData, settings, k, acc) ==
    IF k > Len(mapping) \/ acc.returned THEN acc
    ELSE CHOOSE out \in
            { fillRowLoop(mapping, rowData, settings, k + 1, nxt) :
                nxt \in {fillRowEntry(mapping[k], rowData, settings, acc)} } : TRUE

\* a fillRow that reports success whatever its errors
FillResult_Succeeds(r) ==
    [success |-> TRUE,
     filled |-> r.filled, skipped |-> r.skipped, errors |-> r.errors,
     dom |-> r.dom, attempted |-> r.attempted]

\* the value fillRow returns, with the document after it and the columns attempted
FillResult(r) ==
    [success |-> IF r.returned THEN FALSE ELSE r.errors = <<>>,
     filled |-> r.filled, skipped |-> r.skipped, errors |-> r.errors,
     dom |-> r.dom, attempted |-> r.attempted]

\* Filler.fillRow on the document d
fillRow(d, mapping, rowData, settings) ==
    CHOOSE out \in
        { FillResult(r) :
            r \in {fillRowLoop(mapping, rowData, settings, 1,
                               [filled |-> 0, skipped |-> 0, errors |-> <<>>, dom |-> d,
                                attempted |-> <<>>, returned |-> FALSE])} } : TRUE

\* a preview that assigns the new value to the element
previewTouch_Fills(d, selector, newValue) ==
    IF d[selector] = ABSENT THEN d ELSE [d EXCEPT ![selector] = String(newValue)]

\* what one turn of preview's loop does to the element it looked up: the
\* element is read (element?.value) and never assigned
previewTouch(d, selector, newValue) == d

\* One pass of preview's loop body, for the entry mapInfo.
previewEntry(mapInfo, rowData, acc) ==
    IF mapInfo.selector = "" THEN acc
    ELSE LET value == RowValue(rowData, mapInfo.column)
             validation == validate(value, FieldMeta(mapInfo))
             newValue == IF validation.value # UNDEFINED THEN validation.value ELSE value
             element == acc.dom[mapInfo.selector]
         IN [preview |-> Append(acc.preview,
                            [column |-> mapInfo.column, selector |-> mapInfo.selector,
                             currentValue |-> IF element = ABSENT THEN <<>> ELSE element,
                             newValue |-> newValue,
                             valid |-> validation.valid, error |-> validation.error]),
             warnings |-> IF validation.valid THEN acc.warnings
                          ELSE Append(acc.warnings, [column |-> mapInfo.column,
                                                     error |-> validation.error]),
             dom |-> previewTouch(acc.dom, mapInfo.selector, newValue)]

RECURSIVE previewLoop(_, _, _, _)
previewLoop(mapping, rowData, k, acc) ==
    IF k > Len(mapping) THEN acc
    ELSE CHOOSE out \in
            { previewLoop(mapping, rowData, k + 1, nxt) :
                nxt \in {previewEntry(mapping[k], rowData, acc)} } : TRUE

\* Filler.preview on the document d: the value returned and the document after it
preview(d, mapping, rowData) ==
    previewLoop(mapping, rowData, 1, [preview |-> <<>>, warnings |-> <<>>, dom |-> d])

(* ----------------------- JavaScript objects as maps ------------------- *)

\* key in obj (own keys)
MapHas(m, k) == \E i \in 1..Len(m) : m[i].key = k

\* obj[key], undefined without the key
MapGet(m, k) ==
    IF MapHas(m, k) THEN m[CHOOSE i \in 1..Len(m) : m[i].key = k].value ELSE UNDEFINED

\* obj[key] = value: an existing key keeps its place, a new one goes last
MapSet(m, k, v) ==
    IF MapHas(m, k)
    THEN [i \in 1..Len(m) |-> IF m[i].key = k THEN [key |-> k, value |-> v] ELSE m[i]]
         \o <<>>
    ELSE Append(m, [key |-> k, value |-> v])

\* delete obj[key]
MapDelete(m, k) == SelectSeq(m, LAMBDA e : e.key # k)

\* Object.keys(obj)
MapKeys(m) == [i \in 1..Len(m) |-> m[i].key] \o <<>>

(* --------------------------- string utilities ------------------------- *)

\* the characters of s at the positions I, in order
CharsAt(s, I) ==
    [k \in 1..Cardinality(I) |->
        s[CHOOSE i \in I : Cardinality({j \in I : j < i}) = k - 1]] \o <<>>

\* [_\-\.]
IsSeparator(c) == c \in {"_", "-", "."}

\* .replace(/[_\-\.]+/g, ' ')
SeparatorsToSpace(s) ==
    CHOOSE out \in
        { CharsAt(t, {i \in 1..Len(s) :
                        ~(IsSeparator(s[i]) /\ i > 1 /\ IsSeparator(s[i - 1]))}) :
            t \in {[i \in 1..Len(s) |-> IF IsSeparator(s[i]) THEN " " ELSE s[i]] \o <<>>} } : TRUE

\* .replace(/([a-z])([A-Z])/g, '$1 $2')
CamelSplit(s) ==
    LET B == {i \in 1..Len(s) - 1 : IsLower(s[i]) /\ IsUpper(s[i + 1])}
        pos(i) == i + Cardinality({b \in B : b < i})
    IN  [k \in 1..Len(s) + Cardinality(B) |->
            IF \E i \in 1..Len(s) : pos(i) = k
            THEN s[CHOOSE i \in 1..Len(s) : pos(i) = k]
            ELSE " "] \o <<>>

\* .replace(/\s+/g, ' ')
CollapseSpaces(s) ==
    CharsAt(s, {i \in 1..Len(s) : ~(IsSpace(s[i]) /\ i > 1 /\ IsSpace(s[i - 1]))})

\* Matcher.normalize
normalize(str) ==
    IF Falsy(str) THEN <<>>
    ELSE CHOOSE out \in
            { Trim(d) : d \in
                { CollapseSpaces(c) : c \in
                    { CamelSplit(b) : b \in
                        { SeparatorsToSpace(a) : a \in {toLowerCase(String(str))} } } } } : TRUE

\* .split(/\s+/).filter(Boolean): the maximal runs without whitespace
SplitWords(s) ==
    LET starts == {i \in 1..Len(s) : ~IsSpace(s[i]) /\ (i = 1 \/ IsSpace(s[i - 1]))}
        ends == {j \in 1..Len(s) : ~IsSpace(s[j]) /\ (j = Len(s) \/ IsSpace(s[j + 1]))}
        nth(I, k) == CHOOSE i \in I : Cardinality({j \in I : j < i}) = k - 1
    IN  [k \in 1..Cardinality(starts) |-> SubSeq(s, nth(starts, k), nth(ends, k))] \o <<>>

\* Matcher.tokenize
tokenize(str) == CHOOSE out \in { SplitWords(n) : n \in {normalize(str)} } : TRUE

Min2(x, y) == CHOOSE m \in { IF p[1] <= p[2] THEN p[1] ELSE p[2] : p \in {<<x, y>>} } : TRUE

Max2(x, y) == CHOOSE m \in { IF p[1] >= p[2] THEN p[1] ELSE p[2] : p \in {<<x, y>>} } : TRUE

\* Math.max over the values collected, 0 when there are none
Best(S) ==
    CHOOSE m \in { (CHOOSE x \in T : \A y \in T : y <= x) : T \in {S \cup {0}} } : TRUE

\* a cell whose substitution costs 1 even when the characters are equal
levCell_CostAlways(a, b, i, j, prev, row) ==
    Min2(Min2(prev[j + 1] + 1, row[j] + 1), prev[j] + 1)

\* a cell without the substitution, which leaves insertions and deletions
levCell_NoSubstitute(a, b, i, j, prev, row) ==
    IF a[i] = b[j] THEN prev[j] ELSE Min2(prev[j + 1] + 1, row[j] + 1)

\* dp[i][j] from dp[i-1][j], dp[i][j-1] and dp[i-1][j-1]; prev = dp[i-1], row = dp[i][0..j-1]
levCell(a, b, i, j, prev, row) ==
    Min2(Min2(prev[j + 1] + 1, row[j] + 1),
         prev[j] + (IF a[i] = b[j] THEN 0 ELSE 1))

RECURSIVE levRow(_, _, _, _, _)
\* the loop over j for row i
levRow(a, b, i, prev, row) ==
    IF Len(row) > Len(b) THEN row
    ELSE CHOOSE out \in
            { levRow(a, b, i, prev, nxt) :
                nxt \in {Append(row, levCell(a, b, i, Len(row), prev, row))} } : TRUE

RECURSIVE levTable(_, _, _, _)
\* the loop over i; the value is row dp[la]
levTable(a, b, i, prev) ==
    IF i > Len(a) THEN prev
    ELSE CHOOSE out \in
            { levTable(a, b, i + 1, nxt) : nxt \in {levRow(a, b, i, prev, <<i>>)} } : TRUE

\* Matcher.levenshtein
levenshtein(a, b) ==
    IF Falsy(a) \/ Falsy(b)
    THEN Max2(IF Falsy(a) THEN 0 ELSE Len(a), IF Falsy(b) THEN 0 ELSE Len(b))
    ELSE levTable(a, b, 1, [j \in 1..Len(b) + 1 |-> j - 1] \o <<>>)[Len(b) + 1]

(* Scores are exact fractions: a factor is a multiple of 1/ScoreUnit and a
   score a multiple of 1/ScoreOne.  ScoreUnit is divisible by every length
   up to 16, so the divisions below are exact for the names used here. *)
ScoreUnit == 2 * 2 * 2 * 2 * 3 * 3 * 5 * 7 * 11 * 13

ScoreOne == 100 * ScoreUnit

\* stringSimilarity on the normalized strings
\* a similarity that divides the distance by the shorter length
similarityOf_ByShorter(na, nb) ==
    IF na = nb THEN ScoreUnit
    ELSE IF Falsy(na) \/ Falsy(nb) THEN 0
    ELSE ScoreUnit - (levenshtein(na, nb) * ScoreUnit) \div Min2(Len(na), Len(nb))

similarityOf(na, nb) ==
    IF na = nb THEN ScoreUnit
    ELSE IF Falsy(na) \/ Falsy(nb) THEN 0
    ELSE IF Max2(Len(na), Len(nb)) = 0 THEN ScoreUnit
    ELSE ScoreUnit - (levenshtein(na, nb) * ScoreUnit) \div Max2(Len(na), Len(nb))

\* Matcher.stringSimilarity
stringSimilarity(a, b) ==
    CHOOSE out \in
        { similarityOf(na, nb) : na \in {normalize(a)}, nb \in {normalize(b)} } : TRUE

\* tokenOverlap on the token lists
overlapOf(tokA, tokB) ==
    IF Len(tokA) = 0 \/ Len(tokB) = 0 THEN 0
    ELSE (Cardinality({k \in 1..Len(tokA) : \E m \in 1..Len(tokB) : tokB[m] = tokA[k]})
            * ScoreUnit) \div Max2(Len(tokA), Len(tokB))

\* Matcher.tokenOverlap
tokenOverlap(a, b) ==
    CHOOSE out \in
        { overlapOf(tokA, tokB) : tokA \in {tokenize(a)}, tokB \in {tokenize(b)} } : TRUE

\* Matcher.compareStrings
compareStrings(a, b) ==
    IF Falsy(a) \/ Falsy(b) THEN 0
    ELSE Max2(stringSimilarity(a, b), tokenOverlap(a, b))

(* ------------------------------- synonyms ----------------------------- *)

\* SYNONYMS: canonical name, then its variations, in the order of the table
SYNONYMS ==
    <<
       [canonical |-> <<"e", "m", "a", "i", "l">>,
        synonyms |-> <<
            <<"m", "a", "i", "l">>,
            <<"e", "-", "m", "a", "i", "l">>,
            <<"c", "o", "n", "t", "a", "c", "t", "_", "e", "m", "a", "i", "l">>,
            <<"e", "m", "a", "i", "l", "_", "a", "d", "d", "r", "e", "s", "s">>,
            <<"u", "s", "e", "r", "_", "e", "m", "a", "i", "l">>,
            <<"e", "m", "a", "i", "l", "a", "d", "d", "r", "e", "s", "s">>,
            <<"e", "_", "m", "a", "i", "l">> >>],
       [canonical |-> <<"p", "h", "o", "n", "e">>,
        synonyms |-> <<
            <<"m", "o", "b", "i", "l", "e">>,
            <<"t", "e", "l">>,
            <<"t", "e", "l", "e", "p", "h", "o", "n", "e">>,
            <<"c", "o", "n", "t", "a", "c", "t", "_", "n", "o">>,
            <<"p", "h", "o", "n", "e", "_", "n", "u", "m", "b", "e", "r">>,
            <<"c", "e", "l", "l">>,
            <<"p", "h", "o", "n", "e", "n", "u", "m", "b", "e", "r">>,
            <<"m", "o", "b", "i", "l", "e", "_", "n", "o">>,
            <<"c", "o", "n", "t", "a", "c", "t", "_", "n", "u", "m", "b", "e", "r">>,
            <<"c", "e", "l", "l", "u", "l", "a", "r">> >>],
       [canonical |-> <<"n", "a", "m", "e">>,
        synonyms |-> <<
            <<"f", "u", "l", "l", "n", "a", "m", "e">>,
            <<"f", "u", "l", "l", "_", "n", "a", "m", "e">>,
            <<"u", "s", "e", "r", "n", "a", "m", "e">>,
            <<"u", "s", "e", "r", "_", "n", "a", "m", "e">>,
            <<"c", "a", "n", "d", "i", "d", "a", "t", "e">>,
            <<"p", "e", "r", "s", "o", "n">>,
            <<"a", "p", "p", "l", "i", "c", "a", "n", "t">>,
            <<"c", "o", "n", "t", "a", "c", "t", "n", "a", "m", "e">>,
            <<"c", "o", "n", "t", "a", "c", "t", "_", "n", "a", "m", "e">> >>],
       [canonical |-> <<"f", "i", "r", "s", "t", "_", "n", "a", "m", "e">>,
        synonyms |-> <<
            <<"f", "n", "a", "m", "e">>,
            <<"g", "i", "v", "e", "n", "_", "n", "a", "m", "e">>,
            <<"f", "o", "r", "e", "n", "a", "m", "e">>,
            <<"f", "i", "r", "s", "t", "n", "a", "m", "e">>,
            <<"f", "i", "r", "s", "t">>,
            <<"g", "i", "v", "e", "n", "n", "a", "m", "e">> >>],
       [canonical |-> <<"l", "a", "s", "t", "_", "n", "a", "m", "e">>,
        synonyms |-> <<
            <<"l", "n", "a", "m", "e">>,
            <<"s", "u", "r", "n", "a", "m", "e">>,
            <<"f", "a", "m", "i", "l", "y", "_", "n", "a", "m", "e">>,
            <<"l", "a", "s", "t", "n", "a", "m", "e">>,
            <<"l", "a", "s", "t">>,
            <<"f", "a", "m", "i", "l", "y", "n", "a", "m", "e">> >>],
       [canonical |-> <<"a", "d", "d", "r", "e", "s", "s">>,
        synonyms |-> <<
            <<"s", "t", "r", "e", "e", "t">>,
            <<"l", "o", "c", "a", "t", "i", "o", "n">>,
            <<"a", "d", "d", "r">>,
            <<"a", "d", "d", "r", "e", "s", "s", "_", "l", "i", "n", "e">>,
            <<"s", "t", "r", "e", "e", "t", "_", "a", "d", "d", "r", "e", "s", "s">>,
            <<"a", "d", "d", "r", "e", "s", "s", "l", "i", "n", "e", "1">>,
            <<"a", "d", "d", "r", "e", "s", "s", "1">>,
            <<"a", "d", "d", "r", "e", "s", "s", "_", "l", "i", "n", "e", "_", "1">> >>],
       [canonical |-> <<"a", "d", "d", "r", "e", "s", "s", "2">>,
        synonyms |-> <<
            <<"a", "d", "d", "r", "e", "s", "s", "_", "l", "i", "n", "e", "_", "2">>,
            <<"a", "d", "d", "r", "e", "s", "s", "l", "i", "n", "e", "2">>,
            <<"a", "p", "t">>,
            <<"s", "u", "i", "t", "e">>,
            <<"u", "n", "i", "t">>,
            <<"a", "p", "a", "r", "t", "m", "e", "n", "t">> >>],
       [canonical |-> <<"c", "i", "t", "y">>,
        synonyms |-> <<
            <<"t", "o", "w", "n">>,
            <<"m", "u", "n", "i", "c", "i", "p", "a", "l", "i", "t", "y">>,
            <<"l", "o", "c", "a", "l", "i", "t", "y">>,
            <<"c", "i", "t", "y", "n", "a", "m", "e">> >>],
       [canonical |-> <<"s", "t", "a", "t", "e">>,
        synonyms |-> <<
            <<"p", "r", "o", "v", "i", "n", "c", "e">>,
            <<"r", "e", "g", "i", "o", "n">>,
            <<"s", "t", "a", "t", "e", "_", "p", "r", "o", "v", "i", "n", "c", "e">>,
            <<"s", "t", "a", "t", "e", "p", "r", "o", "v", "i", "n", "c", "e">> >>],
       [canonical |-> <<"z", "i", "p", "c", "o", "d", "e">>,
        synonyms |-> <<
            <<"z", "i", "p">>,
            <<"p", "o", "s", "t", "a", "l", "_", "c", "o", "d", "e">>,
            <<"p", "o", "s", "t", "c", "o", "d", "e">>,
            <<"z", "i", "p", "_", "c", "o", "d", "e">>,
            <<"p", "o", "s", "t", "a", "l", "c", "o", "d", "e">>,
            <<"p", "i", "n", "c", "o", "d", "e">>,
            <<"p", "i", "n", "_", "c", "o", "d", "e">> >>],
       [canonical |-> <<"c", "o", "u", "n", "t", "r", "y">>,
        synonyms |-> <<
            <<"n", "a", "t", "i", "o", "n">>,
            <<"c", "o", "u", "n", "t", "r", "y", "_", "c", "o", "d", "e">>,
            <<"c", "o", "u", "n", "t", "r", "y", "c", "o", "d", "e">>,
            <<"c", "o", "u", "n", "t", "r", "y", "_", "n", "a", "m", "e">> >>],
       [canonical |-> <<"c", "o", "m", "p", "a", "n", "y">>,
        synonyms |-> <<
            <<"o", "r", "g", "a", "n", "i", "z", "a", "t", "i", "o", "n">>,
            <<"e", "m", "p", "l", "o", "y", "e", "r">>,
            <<"f", "i", "r", "m">>,
            <<"b", "u", "s", "i", "n", "e", "s", "s">>,
            <<"o", "r", "g">>,
            <<"o", "r", "g", "a", "n", "i", "s", "a", "t", "i", "o", "n">>,
            <<"c", "o", "m", "p", "a", "n", "y", "_", "n", "a", "m", "e">>,
            <<"c", "o", "m", "p", "a", "n", "y", "n", "a", "m", "e">> >>],
       [canonical |-> <<"t", "i", "t", "l", "e">>,
        synonyms |-> <<
            <<"j", "o", "b", "_", "t", "i", "t", "l", "e">>,
            <<"j", "o", "b", "t", "i", "t", "l", "e">>,
            <<"p", "o", "s", "i", "t", "i", "o", "n">>,
            <<"d", "e", "s", "i", "g", "n", "a", "t", "i", "o", "n">>,
            <<"r", "o", "l", "e">> >>],
       [canonical |-> <<"d", "a", "t", "e">>,
        synonyms |-> <<
            <<"d", "o", "b">>,
            <<"b", "i", "r", "t", "h", "_", "d", "a", "t", "e">>,
            <<"d", "a", "t", "e", "_", "o", "f", "_", "b", "i", "r", "t", "h">>,
            <<"b", "i", "r", "t", "h", "d", "a", "t", "e">>,
            <<"d", "a", "t", "e", "o", "f", "b", "i", "r", "t", "h">> >>],
       [canonical |-> <<"w", "e", "b", "s", "i", "t", "e">>,
        synonyms |-> <<
            <<"u", "r", "l">>,
            <<"w", "e", "b">>,
            <<"h", "o", "m", "e", "p", "a", "g", "e">>,
            <<"s", "i", "t", "e">>,
            <<"w", "e", "b", "p", "a", "g", "e">>,
            <<"w", "e", "b", "_", "u", "r", "l">> >>],
       [canonical |-> <<"c", "o", "m", "m", "e", "n", "t", "s">>,
        synonyms |-> <<
            <<"n", "o", "t", "e", "s">>,
            <<"r", "e", "m", "a", "r", "k", "s">>,
            <<"d", "e", "s", "c", "r", "i", "p", "t", "i", "o", "n">>,
            <<"m", "e", "s", "s", "a", "g", "e">>,
            <<"c", "o", "m", "m", "e", "n", "t">>,
            <<"f", "e", "e", "d", "b", "a", "c", "k">>,
            <<"b", "i", "o">>,
            <<"a", "b", "o", "u", "t">> >>],
       [canonical |-> <<"g", "e", "n", "d", "e", "r">>,
        synonyms |-> <<
            <<"s", "e", "x">>,
            <<"m", "a", "l", "e", "_", "f", "e", "m", "a", "l", "e">> >>],
       [canonical |-> <<"a", "g", "e">>,
        synonyms |-> <<
            <<"y", "e", "a", "r", "s">>,
            <<"y", "e", "a", "r", "s", "_", "o", "l", "d">> >>],
       [canonical |-> <<"s", "a", "l", "a", "r", "y">>,
        synonyms |-> <<
            <<"c", "o", "m", "p", "e", "n", "s", "a", "t", "i", "o", "n">>,
            <<"p", "a", "y">>,
            <<"i", "n", "c", "o", "m", "e">>,
            <<"w", "a", "g", "e">> >>],
       [canonical |-> <<"d", "e", "p", "a", "r", "t", "m", "e", "n", "t">>,
        synonyms |-> <<
            <<"d", "e", "p", "t">>,
            <<"d", "i", "v", "i", "s", "i", "o", "n">>,
            <<"u", "n", "i", "t">>,
            <<"s", "e", "c", "t", "i", "o", "n">> >>],
       [canonical |-> <<"i", "d">>,
        synonyms |-> <<
            <<"e", "m", "p", "l", "o", "y", "e", "e", "_", "i", "d">>,
            <<"e", "m", "p", "_", "i", "d">>,
            <<"s", "t", "a", "f", "f", "_", "i", "d">>,
            <<"i", "d", "e", "n", "t", "i", "f", "i", "e", "r">>,
            <<"r", "e", "c", "o", "r", "d", "_", "i", "d">> >>] >>

\* [\s\-]
IsSpaceOrHyphen(c) == IsSpace(c) \/ c = "-"

\* term.toLowerCase().replace(/[\s\-]+/g, '_').trim()
synonymKey(term) ==
    CHOOSE out \in
        { Trim(CharsAt([i \in 1..Len(t) |-> IF IsSpaceOrHyphen(t[i]) THEN "_" ELSE t[i]] \o <<>>,
                       {i \in 1..Len(t) :
                          ~(IsSpaceOrHyphen(t[i]) /\ i > 1 /\ IsSpaceOrHyphen(t[i - 1]))})) :
            t \in {toLowerCase(term)} } : TRUE

\* synonyms.includes(normalized)
Includes(list, w) == \E i \in 1..Len(list) : list[i] = w

\* findCanonical on the normalized term: the key itself, else the first
\* group that lists it, else null
canonicalOf(n) ==
    IF \E k \in 1..Len(SYNONYMS) : SYNONYMS[k].canonical = n THEN n
    ELSE IF \E k \in 1..Len(SYNONYMS) : Includes(SYNONYMS[k].synonyms, n)
    THEN SYNONYMS[CHOOSE k \in 1..Len(SYNONYMS) :
                    /\ Includes(SYNONYMS[k].synonyms, n)
                    /\ \A j \in 1..k - 1 : ~Includes(SYNONYMS[j].synonyms, n)].canonical
    ELSE NULL

\* findCanonical
findCanonical(term) ==
    IF Falsy(term) THEN NULL
    ELSE CHOOSE out \in { canonicalOf(n) : n \in {synonymKey(term)} } : TRUE

\* areSynonyms
areSynonyms(termA, termB) ==
    IF Falsy(termA) \/ Falsy(termB) THEN FALSE
    ELSE \E canonA \in {findCanonical(termA)} : \E canonB \in {findCanonical(termB)} :
            \/ ~Falsy(canonA) /\ ~Falsy(canonB) /\ canonA = canonB
            \/ synonymKey(termA) = synonymKey(termB)

(* ---------------------------- matching factors ------------------------ *)

\* the attribute values that pass .filter(Boolean)
Present(field, attrs) == {field[a] : a \in {b \in attrs : ~Falsy(field[b])}}

\* Matcher.nameScore
nameScore(column, field) ==
    Best({compareStrings(column, v) : v \in Present(field, {"name", "id"})})

\* Matcher.labelScore
labelScore(column, field) ==
    IF Falsy(field.label) THEN 0 ELSE compareStrings(column, field.label)

\* Matcher.attributeScore
attributeScore(column, field) ==
    CHOOSE out \in
        { Best({compareStrings(colNorm, v) :
                  v \in Present(field, {"ariaLabel", "placeholder", "title"})
                        \cup {String(field.dataAttrs[i]) : i \in 1..Len(field.dataAttrs)}}) :
            colNorm \in {normalize(column)} } : TRUE

\* Matcher.synonymScore
synonymScore(column, field) ==
    CHOOSE out \in
        { IF \E fv \in fieldsToCheck : areSynonyms(column, fv) THEN ScoreUnit
          ELSE IF \E colCanon \in {findCanonical(column)} :
                    /\ ~Falsy(colCanon)
                    /\ \E fv \in fieldsToCheck : findCanonical(fv) = colCanon
               THEN ScoreUnit
               ELSE 0 :
            fieldsToCheck \in
                {Present(field, {"name", "id", "label", "ariaLabel", "placeholder"})} } : TRUE

\* typeMap of typeScore
TypeMap ==
    << [dataType |-> <<"e", "m", "a", "i", "l">>,
        htmlTypes |-> <<<<"e", "m", "a", "i", "l">>>>],
       [dataType |-> <<"p", "h", "o", "n", "e">>,
        htmlTypes |-> <<<<"t", "e", "l">>>>],
       [dataType |-> <<"n", "u", "m", "b", "e", "r">>,
        htmlTypes |-> <<<<"n", "u", "m", "b", "e", "r">>, <<"r", "a", "n", "g", "e">>>>],
       [dataType |-> <<"d", "a", "t", "e">>,
        htmlTypes |-> <<<<"d", "a", "t", "e">>,
                        <<"d", "a", "t", "e", "t", "i", "m", "e", "-", "l", "o", "c", "a", "l">>>>],
       [dataType |-> <<"u", "r", "l">>,
        htmlTypes |-> <<<<"u", "r", "l">>>>],
       [dataType |-> <<"t", "e", "x", "t">>,
        htmlTypes |-> <<<<"t", "e", "x", "t">>,
                        <<"t", "e", "x", "t", "a", "r", "e", "a">>,
                        <<"p", "a", "s", "s", "w", "o", "r", "d">>>>] >>

\* Matcher.typeScore
typeScore(columnType, field) ==
    IF Falsy(columnType) THEN 0
    ELSE CHOOSE out \in
            { IF \E k \in 1..Len(TypeMap) :
                    columnType = TypeMap[k].dataType /\ Includes(TypeMap[k].htmlTypes, fieldType)
              THEN ScoreUnit ELSE 0 :
                fieldType \in
                    {toLowerCase(IF Falsy(field.type) THEN <<"t", "e", "x", "t">> ELSE field.type)} } : TRUE

\* Matcher.calculateMatchScore, in units of 1/ScoreOne
calculateMatchScore(columnName, formField, columnDataType) ==
    Min2(  nameScore(columnName, formField) * 40
         + labelScore(columnName, formField) * 25
         + attributeScore(columnName, formField) * 20
         + synonymScore(columnName, formField) * 10
         + typeScore(columnDataType, formField) * 5,
         ScoreOne)

\* Matcher.CONFIDENCE
CONFIDENCE ==
    [HIGH |-> 75 * ScoreUnit, MEDIUM |-> 50 * ScoreUnit, LOW |-> 25 * ScoreUnit]

(* -------------------------------- autoMap ----------------------------- *)

RECURSIVE scorePairs(_, _, _, _, _)
\* the loops that score every (column, field) pair, column by column
scorePairs(columns, fields, dataTypes, n, pairs) ==
    IF n > Len(columns) * Len(fields) THEN pairs
    ELSE CHOOSE out \in
            { scorePairs(columns, fields, dataTypes, n + 1, Append(pairs, p)) :
                p \in { [column |-> col, field |-> field,
                         score |-> calculateMatchScore(col, field, MapGet(dataTypes, col))] :
                            col \in {columns[((n - 1) \div Len(fields)) + 1]},
                            field \in {fields[((n - 1) % Len(fields)) + 1]} } } : TRUE

\* a sort that puts equal scores in the reverse of their original order
SortByScore_LaterFirst(pairs) ==
    LET Before(m, n) ==
            \/ pairs[m].score > pairs[n].score
            \/ pairs[m].score = pairs[n].score /\ m > n
    IN  [k \in 1..Len(pairs) |->
            pairs[CHOOSE n \in 1..Len(pairs) :
                    Cardinality({m \in 1..Len(pairs) : Before(m, n)}) = k - 1]] \o <<>>

\* no sort at all: the greedy loop walks the pairs as they were scored
SortByScore_Unsorted(pairs) == pairs

\* pairs.sort((a, b) => b.score - a.score): by score, highest first, equal
\* scores in their original order
SortByScore(pairs) ==
    LET Before(m, n) ==
            \/ pairs[m].score > pairs[n].score
            \/ pairs[m].score = pairs[n].score /\ m < n
    IN  [k \in 1..Len(pairs) |->
            pairs[CHOOSE n \in 1..Len(pairs) :
                    Cardinality({m \in 1..Len(pairs) : Before(m, n)}) = k - 1]] \o <<>>

\* usedFields.has(selector) without the check
UsedField_Never(usedFields, selector) == FALSE

\* usedFields.has(selector)
UsedField(usedFields, selector) == selector \in usedFields

\* a classification without the medium bucket
Level_TwoBuckets(score) ==
    IF score >= CONFIDENCE.MEDIUM THEN "high" ELSE "low"

\* const level = p.score >= CONFIDENCE.HIGH ? 'high' : p.score >= CONFIDENCE.MEDIUM ? ...
Level(score) ==
    IF score >= CONFIDENCE.HIGH THEN "high"
    ELSE IF score >= CONFIDENCE.MEDIUM THEN "medium" ELSE "low"

\* one turn of the greedy loop
assignPair(p, acc) ==
    IF MapHas(acc.mapping, p.column) \/ UsedField(acc.usedFields, p.field.selector) THEN acc
    ELSE IF p.score < CONFIDENCE.LOW THEN acc
    ELSE [mapping |-> MapSet(acc.mapping, p.column,
                             [field |-> p.field, selector |-> p.field.selector,
                              confidence |-> p.score, level |-> Level(p.score)]),
          usedFields |-> acc.usedFields \cup {p.field.selector}]

RECURSIVE assignPairs(_, _, _)
assignPairs(pairs, k, acc) ==
    IF k > Len(pairs) THEN acc
    ELSE CHOOSE out \in
            { assignPairs(pairs, k + 1, nxt) : nxt \in {assignPair(pairs[k], acc)} } : TRUE

\* Matcher.autoMap
autoMap(columns, fields, dataTypes) ==
    CHOOSE out \in
        { assignPairs(sorted, 1, [mapping |-> <<>>, usedFields |-> {}]).mapping :
            sorted \in
                { SortByScore(pairs) :
                    pairs \in {scorePairs(columns, fields, dataTypes, 1, <<>>)} } } : TRUE

(* -------------------------------- Mapper ------------------------------ *)

\* { ...info, source }
WithSource(info, source) ==
    [field |-> info.field, selector |-> info.selector,
     confidence |-> info.confidence, level |-> info.level, source |-> source]

\* the first loop tagging its entries as manual ones
TagAuto_AsManual(info) == WithSource(info, "manual")

\* result[col] = { ...info, source: 'auto' }
TagAuto(info) == WithSource(info, "auto")

\* field: null in an entry
NullField == [selector |-> NULL]

\* fields.find(f => f.selector === selector) || null
FindField(fields, selector) ==
    IF \E i \in 1..Len(fields) : fields[i].selector = selector
    THEN fields[CHOOSE i \in 1..Len(fields) :
                    /\ fields[i].selector = selector
                    /\ \A j \in 1..i - 1 : fields[j].selector # selector]
    ELSE NullField

\* a manual entry that keeps a guessed level
ManualEntry_Guessed(fields, selector) ==
    [field |-> FindField(fields, selector), selector |-> selector,
     confidence |-> CONFIDENCE.MEDIUM, level |-> "medium", source |-> "manual"]

\* the entry written for a manual selection
ManualEntry(fields, selector) ==
    [field |-> FindField(fields, selector), selector |-> selector,
     confidence |-> ScoreOne, level |-> "high", source |-> "manual"]

\* the first loop of mergeMappings
tagAll(autoMapping) ==
    [i \in 1..Len(autoMapping) |->
        [key |-> autoMapping[i].key, value |-> TagAuto(autoMapping[i].value)]] \o <<>>

\* one turn of the second loop
applyManual(result, col, selector, fields) ==
    IF Falsy(selector) THEN MapDelete(result, col)
    ELSE MapSet(result, col, ManualEntry(fields, selector))

RECURSIVE applyManuals(_, _, _, _)
applyManuals(result, manualMapping, k, fields) ==
    IF k > Len(manualMapping) THEN result
    ELSE CHOOSE out \in
            { applyManuals(nxt, manualMapping, k + 1, fields) :
                nxt \in {applyManual(result, manualMapping[k].key,
                                     manualMapping[k].value, fields)} } : TRUE

\* Mapper.mergeMappings
mergeMappings(autoMapping, manualMapping, fields) ==
    CHOOSE out \in
        { applyManuals(tagged, manualMapping, 1, fields) :
            tagged \in {tagAll(autoMapping)} } : TRUE

\* A value of the saved profile mapping.  toSerializable writes objects
\* { selector, confidence, level }; confidence <<>> stands for an absent key.
SavedEntry(selector, confidence) ==
    [kind |-> "object", selector |-> selector, confidence |-> confidence]

\* a saved value that is the selector string itself
SavedSelector(selector) ==
    [kind |-> "string", selector |-> selector, confidence |-> <<>>]

\* what `info.selector || info` yields when info is an object without a selector
ObjectItself == <<"[object Object]">>

\* const selector = info.selector || info
selectorOf(info) ==
    IF info.kind = "string" THEN info.selector
    ELSE IF Falsy(info.selector) THEN ObjectItself ELSE info.selector

\* a membership test that lets every saved selector through
fieldSelectorsHas_Any(fields, selector) == TRUE

\* fieldSelectors.has(selector), fieldSelectors = new Set(fields.map(f => f.selector))
fieldSelectorsHas(fields, selector) ==
    \E i \in 1..Len(fields) : fields[i].selector = selector

\* the literal 0.9 on the scale of the scores
DefaultConfidence == 90 * ScoreUnit

\* info.confidence || 0.9 : an absent confidence and the number 0 are falsy
confidenceOrDefault(info) ==
    IF info.confidence = <<>> THEN DefaultConfidence
    ELSE IF info.confidence[1] = 0 THEN DefaultConfidence
    ELSE info.confidence[1]

\* the entry written for a saved entry whose selector is on the page
ProfileEntry(info, fields) ==
    [field |-> FindField(fields, selectorOf(info)), selector |-> selectorOf(info),
     confidence |-> confidenceOrDefault(info), level |-> "high", source |-> "profile"]

\* one turn of the loop over Object.entries(profileMapping)
applySaved(result, col, info, fields) ==
    IF fieldSelectorsHas(fields, selectorOf(info))
    THEN MapSet(result, col, ProfileEntry(info, fields))
    ELSE result

RECURSIVE applySavedLoop(_, _, _, _)
applySavedLoop(result, profile, k, fields) ==
    IF k > Len(profile) THEN result
    ELSE CHOOSE out \in
            { applySavedLoop(nxt, profile, k + 1, fields) :
                nxt \in {applySaved(result, profile[k].key, profile[k].value, fields)} } : TRUE

\* Mapper.applySavedProfile, on a profile mapping that is an object
applySavedProfile(profile, fields) == applySavedLoop(<<>>, profile, 1, fields)

(* The objects of a call.  A heap lists the contents of the objects that
   exist, a reference is a position in it; the arguments of a call are
   references, and so is what it returns. *)

\* an allocation that hands back the argument instead of a new object
newObject_Reuses(h, argument) == [heap |-> h, ref |-> argument]

\* `const result = {}` / `const mapping = {}`: a new, empty object.  (argument
\* is the object the callee reads its entries from.)
newObject(h, argument) == [heap |-> Append(h, <<>>), ref |-> Len(h) + 1]

\* the heap after the callee's writes `ref[col] = ...` and `delete ref[col]`,
\* which leave ref with the given contents
written(h, ref, contents) == [h EXCEPT ![ref] = contents]

\* Matcher.autoMap(columns, fields, dataTypes) on references
autoMapCall(h, columns, fields, dataTypes) ==
    CHOOSE out \in
        { [heap |-> written(made.heap, made.ref,
                            autoMap(h[columns], h[fields], h[dataTypes])),
           result |-> made.ref] :
            made \in {newObject(h, fields)} } : TRUE

\* Mapper.mergeMappings(autoMapping, manualMapping, fields) on references
mergeCall(h, autoMapping, manualMapping, fields) ==
    CHOOSE out \in
        { [heap |-> written(made.heap, made.ref,
                            mergeMappings(h[autoMapping], h[manualMapping], h[fields])),
           result |-> made.ref] :
            made \in {newObject(h, autoMapping)} } : TRUE

\* Mapper.applySavedProfile(profileMapping, fields) on references
applyProfileCall(h, profile, fields) ==
    CHOOSE out \in
        { [heap |-> written(made.heap, made.ref,
                            applySavedProfile(h[profile], h[fields])),
           result |-> made.ref] :
            made \in {newObject(h, profile)} } : TRUE

(* ------------------------- the fill session --------------------------- *)

VARIABLES
    reqMapping,       \* the mapping the caller sends with fillRow / fillBatch
    reqRows,          \* the rows the caller sends with fillBatch
    reqSettings,      \* the settings the caller sends
    dom,              \* the page: selector -> element.value, or ABSENT
    abortController,  \* Filler's module-level abort flag holder
    batch,            \* the fillBatch invocations: locals, position, progress messages sent
    timers,           \* pending setTimeout callbacks of the delays, oldest first
    stopAt,           \* per invocation: rows done when stop() was first called on it, or -1
    alone,            \* per invocation: no other invocation has been in flight with it
    lastFill,         \* the last fillRow request: row, page before, outcome
    isFilling,        \* popup: the guard of the fill handlers
    fillBtnDisabled,  \* popup: #fill-btn and #fill-batch-btn are disabled
    stopBtnShown,     \* popup: #stop-fill-btn is displayed
    tasks,            \* popup: the running click handlers and their position
    inbox,            \* messages sent to the content script, oldest first
    replyTo,          \* content script: the handler that awaits invocation b's response
    columns,          \* popup: the column names of the sheet
    detectedFields,   \* popup: the fields the detector found
    dataTypes,        \* popup: the type inferred for each column
    currentMapping,   \* popup: column -> entry
    manualOverrides,  \* popup: column -> selector chosen by hand ("" = not mapped)
    lastMap,          \* the last Matcher / Mapper call made on its own, and its result
    profileMapping,   \* storage: the mapping of the profile saved for the site
    lastPreview,      \* the preview responses sent so far: their number and the last one
    vValue,           \* the value handed to the Validator
    vField,           \* the field descriptor handed to the Validator
    lastValid,        \* the last Validator call made on its own, and its result
    heap,             \* the objects of the Matcher / Mapper calls: their contents
    lastCall,         \* the last call made on references: arguments and result
    textA,            \* the first string handed to a string utility
    textB,            \* the second string handed to a string utility
    lastText,         \* the last string utility call made on its own, and its result
    profiles,         \* storage: what chrome.storage.local holds under 'profiles'
    storageOps,       \* the Storage calls made: their domain, position and local copy
    storageQueue      \* the get and set requests chrome.storage has not served yet

fillVars == <<reqMapping, reqRows, reqSettings, dom, abortController, batch, timers,
              stopAt, alone, lastFill>>

popupVars == <<isFilling, fillBtnDisabled, stopBtnShown, tasks, inbox, replyTo>>

mapVars == <<columns, detectedFields, dataTypes, currentMapping, manualOverrides, lastMap>>

profileVars == <<profileMapping>>

previewVars == <<lastPreview>>

validVars == <<vValue, vField, lastValid>>

heapVars == <<heap, lastCall>>

textVars == <<textA, textB, lastText>>

storageVars == <<profiles, storageOps, storageQueue>>

callVars == <<profileVars, previewVars, validVars, heapVars, textVars, storageVars>>

vars == <<fillVars, popupVars, mapVars, callVars>>

Selectors == {"#name", "#email", "#phone"}

\* the mapping as prepareSerialMapping sends it
FillMapping ==
    << [column |-> "Name", selector |-> "#name",
        field |-> [type |-> "text", required |-> TRUE]],
       [column |-> "Email", selector |-> "#email",
        field |-> [type |-> "email", required |-> FALSE]],
       [column |-> "Phone", selector |-> "#phone",
        field |-> [type |-> "text", required |-> FALSE]] >>

RowGood == [Name |-> <<"A", "l">>, Email |-> <<"a", "@", "b", ".", "c">>, Phone |-> <<"5">>]
RowBadEmail == [Name |-> <<"B", "o">>, Email |-> <<"x">>, Phone |-> <<"7">>]
RowBadBoth == [Name |-> <<" ">>, Email |-> <<"y", "@">>]
RowPool == {RowGood, RowBadBoth}

RowLists == UNION {[1..n -> RowPool] : n \in 1..MaxRows}

DomEmpty == [s \in Selectors |-> <<>>]
DomStale == [s \in Selectors |->
                IF s = "#name" THEN <<"Z">> ELSE IF s = "#phone" THEN ABSENT ELSE <<>>]
\* a page that has lost the target of the first column
DomNoName == [s \in Selectors |-> IF s = "#name" THEN ABSENT ELSE <<>>]
DomPool == {DomEmpty, DomStale, DomNoName}

\* settings.delay: 0, or a positive number of milliseconds
Delays == {0, 500}

SettingsPool ==
    [skipFilled : BOOLEAN, stopOnError : BOOLEAN, delay : Delays]

NoController == [isNull |-> TRUE, aborted |-> FALSE]
FreshController == [isNull |-> FALSE, aborted |-> FALSE]

BatchIds == 1..MaxBatches

UnusedBatch ==
    [pc |-> "unused", i |-> 0, results |-> <<>>, totalFilled |-> 0, totalErrors |-> 0,
     progress |-> <<>>]

NoFill == [called |-> FALSE, row |-> 0, before |-> DomEmpty,
           result |-> [success |-> TRUE, filled |-> 0, skipped |-> 0, errors |-> <<>>,
                       dom |-> DomEmpty, attempted |-> <<>>]]

InitFill ==
    /\ reqMapping = FillMapping
    /\ reqRows \in RowLists
    /\ reqSettings \in SettingsPool
    /\ dom \in DomPool
    /\ abortController = NoController
    /\ batch = [b \in BatchIds |-> UnusedBatch]
    /\ timers = <<>>
    /\ stopAt = [b \in BatchIds |-> -1]
    /\ alone = [b \in BatchIds |-> TRUE]
    /\ lastFill = NoFill

\* `if (abortController.aborted)` at the head of an iteration
AbortRequested_Never(ac) == FALSE

AbortRequested(ac) == ac.aborted

\* `totalErrors += result.errors.length`
AddErrors_PerRow(total, result) == total + (IF result.errors = <<>> THEN 0 ELSE 1)

AddErrors(total, result) == total + Len(result.errors)

\* a marker that carries the index of the row after the one not started
abortedMarker_NextRow(i) == [row |-> i + 1, aborted |-> TRUE]

\* `results.push({ row: i, aborted: true })`
abortedMarker(i) == [row |-> i, aborted |-> TRUE]

\* a progress message that carries the row index as it is
progressEvent_RowIndex(i, rows, result) ==
    [current |-> i, total |-> Len(rows), success |-> result.success,
     filled |-> result.filled, skipped |-> result.skipped, errors |-> result.errors]

\* `onProgress({ current: i + 1, total: rows.length, result })`, which the
\* message handler sends on as a fillProgress message
progressEvent(i, rows, result) ==
    [current |-> i + 1, total |-> Len(rows), success |-> result.success,
     filled |-> result.filled, skipped |-> result.skipped, errors |-> result.errors]

\* a loop that goes on after a failed row
stopsBatch_Never(result, settings) == FALSE

\* `if (!result.success && settings.stopOnError) break;`
stopsBatch(result, settings) == ~result.success /\ settings.stopOnError

\* a loop that waits after every row, the last one included
yields_AfterEveryRow(i, rows, settings) == settings.delay > 0

\* `if (i < rows.length - 1 && settings.delay > 0)` before the await
yields(i, rows, settings) == i < Len(rows) - 1 /\ settings.delay > 0

\* fillBatch's for loop from its head at st.i, run until it suspends in the
\* delay ("delay"), leaves the loop and returns ("returned") or the read of
\* abortController.aborted throws on null ("threw").  fillBatchRow is the rest
\* of an iteration once fillRow has returned result.
RECURSIVE fillBatchLoop(_, _, _, _)
fillBatchRow(mapping, rows, settings, st, result) ==
    LET done == [st EXCEPT
                    !.results = Append(@, [row |-> st.i, aborted |-> FALSE,
                                           success |-> result.success,
                                           filled |-> result.filled,
                                           skipped |-> result.skipped,
                                           errors |-> result.errors]),
                    !.totalFilled = @ + result.filled,
                    !.totalErrors = AddErrors(@, result),
                    !.progress = Append(@, progressEvent(st.i, rows, result)),
                    !.dom = result.dom]
    IN IF stopsBatch(result, settings)
       THEN [done EXCEPT !.pc = "returned", !.ac = NoController]
       ELSE IF yields(st.i, rows, settings)
       THEN [done EXCEPT !.pc = "delay"]
       ELSE CHOOSE out \in
               { fillBatchLoop(mapping, rows, settings, nxt) :
                   nxt \in {[done EXCEPT !.i = @ + 1]} } : TRUE

fillBatchLoop(mapping, rows, settings, st) ==
    IF ~(st.i < Len(rows))
    THEN [st EXCEPT !.pc = "returned", !.ac = NoController]
    ELSE IF st.ac.isNull
    THEN [st EXCEPT !.pc = "threw"]
    ELSE IF AbortRequested(st.ac)
    THEN [st EXCEPT !.results = Append(@, abortedMarker(st.i)),
                    !.pc = "returned", !.ac = NoController]
    ELSE CHOOSE out \in
            { fillBatchRow(mapping, rows, settings, st, result) :
                result \in {fillRow(st.dom, mapping, rows[st.i + 1], settings)} } : TRUE

InFlight(b) == batch[b].pc = "delay"

\* what one run of invocation b's loop leaves behind
Ran(b, st) ==
    /\ batch' = [batch EXCEPT ![b] = [pc |-> st.pc, i |-> st.i, results |-> st.results,
                                      totalFilled |-> st.totalFilled,
                                      totalErrors |-> st.totalErrors,
                                      progress |-> st.progress]]
    /\ dom' = st.dom
    /\ abortController' = st.ac

\* the fillBatch message: Filler.fillBatch runs up to its first await or its end
FillBatch(b) ==
    /\ batch[b].pc = "unused"
    /\ \A c \in BatchIds : c < b => batch[c].pc # "unused"
    /\ \E st \in {fillBatchLoop(reqMapping, reqRows, reqSettings,
                                 [pc |-> "run", i |-> 0, results |-> <<>>,
                                  totalFilled |-> 0, totalErrors |-> 0,
                                  progress |-> <<>>, dom |-> dom,
                                  ac |-> FreshController])} :
          /\ Ran(b, st)
          /\ timers' = IF st.pc = "delay" THEN Append(timers, b) ELSE timers
    /\ alone' = [c \in BatchIds |->
                    IF \E o \in BatchIds : InFlight(o)
                    THEN (IF c = b \/ InFlight(c) THEN FALSE ELSE alone[c])
                    ELSE alone[c]]
    /\ UNCHANGED <<reqMapping, reqRows, reqSettings, stopAt, lastFill>>

\* the oldest delay expires: its invocation resumes with i++ and the loop head
DelayExpires ==
    /\ timers # <<>>
    /\ \E b \in {Head(timers)} :
       \E st \in {fillBatchLoop(reqMapping, reqRows, reqSettings,
                                 [pc |-> "run", i |-> batch[b].i + 1,
                                  results |-> batch[b].results,
                                  totalFilled |-> batch[b].totalFilled,
                                  totalErrors |-> batch[b].totalErrors,
                                  progress |-> batch[b].progress,
                                  dom |-> dom, ac |-> abortController])} :
          /\ Ran(b, st)
          /\ timers' = IF st.pc = "delay" THEN Append(Tail(timers), b) ELSE Tail(timers)
    /\ UNCHANGED <<reqMapping, reqRows, reqSettings, stopAt, alone, lastFill>>

\* a stop that makes a holder, already set, when there is none
stop_CreatesHolder(ac) == [isNull |-> FALSE, aborted |-> TRUE]

\* Filler.stop
stop(ac) == IF ac.isNull THEN ac ELSE [ac EXCEPT !.aborted = TRUE]

\* the stopFill message: Filler.stop(), then the highlights are removed
StopFill ==
    /\ abortController' = stop(abortController)
    /\ stopAt' = [b \in BatchIds |->
                     IF InFlight(b) /\ stopAt[b] = -1 THEN Len(batch[b].results)
                     ELSE stopAt[b]]
    /\ UNCHANGED <<reqMapping, reqRows, reqSettings, dom, batch, timers, alone, lastFill>>

\* the fillRow message for row r of the caller's data
FillRow(r) ==
    /\ dom' = fillRow(dom, reqMapping, reqRows[r], reqSettings).dom
    /\ UNCHANGED <<reqMapping, reqRows, reqSettings, abortController, batch, timers,
                   stopAt, alone, lastFill>>

\* the fillRow message, with the request and its outcome kept for inspection
FillRowRecorded(r) ==
    /\ \E result \in {fillRow(dom, reqMapping, reqRows[r], reqSettings)} :
          /\ lastFill' = [called |-> TRUE, row |-> r, before |-> dom, result |-> result]
          /\ dom' = result.dom
    /\ UNCHANGED <<reqMapping, reqRows, reqSettings, abortController, batch, timers,
                   stopAt, alone>>

\* the page's user clears a field
ClearField(s) ==
    /\ dom[s] # ABSENT
    /\ dom[s] # <<>>
    /\ dom' = [dom EXCEPT ![s] = <<>>]
    /\ UNCHANGED <<reqMapping, reqRows, reqSettings, abortController, batch, timers,
                   stopAt, alone, lastFill>>

\* a mapping whose second entry has lost its selector
FillMappingUnmapped ==
    [FillMapping EXCEPT ![2] = [column |-> "Email", selector |-> "", field |-> NoField]]

\* a mapping with the e-mail field required and first
FillMappingEmailFirst ==
    << [column |-> "Email", selector |-> "#email",
        field |-> [type |-> "email", required |-> TRUE]],
       [column |-> "Phone", selector |-> "#phone",
        field |-> [type |-> "text", required |-> TRUE]],
       [column |-> "Name", selector |-> "#name",
        field |-> [type |-> "text", required |-> FALSE]] >>

RowMappingPool == {FillMapping, FillMappingUnmapped, FillMappingEmailFirst}

RowPoolAll == {RowGood, RowBadEmail, RowBadBoth}

\* the two rows a fillRow session alternates between
RowPairs == [1..2 -> RowPoolAll]

InitFillRow ==
    /\ reqMapping \in RowMappingPool
    /\ reqRows \in RowPairs
    /\ reqSettings \in {st \in SettingsPool : st.delay = 0}
    /\ dom \in DomPool
    /\ abortController = NoController
    /\ batch = [b \in BatchIds |-> UnusedBatch]
    /\ timers = <<>>
    /\ stopAt = [b \in BatchIds |-> -1]
    /\ alone = [b \in BatchIds |-> TRUE]
    /\ lastFill = NoFill

TaskIds == 1..MaxTasks

NoCall == [op |-> "none", result |-> <<>>]

\* no preview requested yet
NoPreview == [count |-> 0, preview |-> <<>>, warnings |-> <<>>]

\* a field descriptor as the detector builds it, cut down to what the Validator reads
FieldOf(type, required, options, min, max) ==
    [type |-> type, required |-> required, options |-> options, min |-> min, max |-> max]

InitHeapIdle ==
    /\ heap = <<>>
    /\ lastCall = [op |-> "none", args |-> <<>>, result |-> 0]

\* nothing stored, no Storage call made
InitStorageIdle ==
    /\ profiles = <<>>
    /\ storageOps = <<>>
    /\ storageQueue = <<>>

InitTextIdle ==
    /\ textA = <<>>
    /\ textB = <<>>
    /\ lastText = NoCall

InitValidIdle ==
    /\ vValue = UNDEFINED
    /\ vField = FieldOf("text", FALSE, <<>>, UNDEFINED, UNDEFINED)
    /\ lastValid = NoCall

\* no saved profile, no preview requested, no validation asked for
InitCallIdle ==
    /\ profileMapping = <<>>
    /\ lastPreview = NoPreview
    /\ InitValidIdle
    /\ InitHeapIdle
    /\ InitTextIdle
    /\ InitStorageIdle

InitMapIdle ==
    /\ columns = <<>>
    /\ detectedFields = <<>>
    /\ dataTypes = <<>>
    /\ currentMapping = <<>>
    /\ manualOverrides = <<>>
    /\ lastMap = NoCall


NoTask == [kind |-> "none", pc |-> "none"]

InitPopup ==
    /\ isFilling = FALSE
    /\ fillBtnDisabled = FALSE
    /\ stopBtnShown = FALSE
    /\ tasks = [t \in TaskIds |-> NoTask]
    /\ inbox = <<>>
    /\ replyTo = [b \in BatchIds |-> 0]

(* The content script under any sequence of requests. *)

Init == InitFill /\ InitPopup /\ InitMapIdle /\ InitCallIdle

RequestFillBatch(b) == FillBatch(b) /\ UNCHANGED <<popupVars, mapVars, callVars>>

RequestStopFill == StopFill /\ UNCHANGED <<popupVars, mapVars, callVars>>

RequestFillRow(r) == FillRow(r) /\ UNCHANGED <<popupVars, mapVars, callVars>>

TimerFires == DelayExpires /\ UNCHANGED <<popupVars, mapVars, callVars>>

Next ==
    \/ \E b \in BatchIds : RequestFillBatch(b)
    \/ TimerFires
    \/ RequestStopFill
    \/ \E r \in 1..Len(reqRows) : RequestFillRow(r)

Spec == Init /\ [][Next]_vars

(* fillRow requests against a page, one at a time. *)

InitRow == InitFillRow /\ InitPopup /\ InitMapIdle /\ InitCallIdle

NextRow ==
    \/ \E r \in 1..Len(reqRows) : FillRowRecorded(r) /\ UNCHANGED <<popupVars, mapVars, callVars>>
    \/ \E s \in Selectors : ClearField(s) /\ UNCHANGED <<popupVars, mapVars, callVars>>

SpecRow == InitRow /\ [][NextRow]_vars

(* A fill session in which the popup also asks for previews. *)

InitPreview ==
    /\ reqMapping = FillMapping
    /\ reqRows = <<RowGood, RowBadBoth>>
    /\ reqSettings \in {st \in SettingsPool : st.delay = 500 /\ ~st.skipFilled}
    /\ dom \in DomPool
    /\ abortController = NoController
    /\ batch = [b \in BatchIds |-> UnusedBatch]
    /\ timers = <<>>
    /\ stopAt = [b \in BatchIds |-> -1]
    /\ alone = [b \in BatchIds |-> TRUE]
    /\ lastFill = NoFill
    /\ InitPopup /\ InitMapIdle /\ InitCallIdle

\* the preview message: Filler.preview(request.mapping, request.rowData) and the response
Preview(r) ==
    /\ lastPreview.count < MaxPreviews
    /\ \E out \in {preview(dom, reqMapping, reqRows[r])} :
          /\ dom' = out.dom
          /\ lastPreview' = [count |-> lastPreview.count + 1,
                             preview |-> out.preview, warnings |-> out.warnings]
    /\ UNCHANGED <<reqMapping, reqRows, reqSettings, abortController, batch, timers,
                   stopAt, alone, lastFill, popupVars, mapVars, profileVars, textVars, storageVars, validVars,
                   heapVars>>

NextPreview ==
    \/ \E b \in BatchIds : RequestFillBatch(b)
    \/ TimerFires
    \/ RequestStopFill
    \/ \E r \in 1..Len(reqRows) : Preview(r)

SpecPreview == InitPreview /\ [][NextPreview]_vars

(* ------------------------- the popup controller ----------------------- *)

\* the settings fillAllRows sends: delay is `settings.delay || 500`
PopupSettings ==
    {st \in SettingsPool : st.delay = 500 /\ ~st.skipFilled}

InitSession ==
    /\ reqMapping = FillMapping
    /\ reqRows = <<RowGood, RowBadBoth>>
    /\ reqSettings \in PopupSettings
    /\ dom = DomEmpty
    /\ abortController = NoController
    /\ batch = [b \in BatchIds |-> UnusedBatch]
    /\ timers = <<>>
    /\ stopAt = [b \in BatchIds |-> -1]
    /\ alone = [b \in BatchIds |-> TRUE]
    /\ lastFill = NoFill
    /\ InitPopup
    /\ InitMapIdle /\ InitCallIdle

FreeTask(t) ==
    /\ tasks[t].kind = "none"
    /\ \A u \in TaskIds : u < t => tasks[u].kind # "none"

Started(kind) == {t \in TaskIds : tasks[t].kind = kind}

\* a click on #fill-batch-btn or #fill-btn: the handler passes `if (isFilling)
\* return` and suspends in getActiveTab / injectContentScripts
ClickFill(t, kind) ==
    /\ FreeTask(t)
    /\ ~fillBtnDisabled
    /\ ~isFilling
    /\ kind = "fillAll" => Cardinality(Started("fillAll")) < MaxBatches
    /\ tasks' = [tasks EXCEPT ![t] = [kind |-> kind, pc |-> "prepare"]]
    /\ UNCHANGED <<fillVars, mapVars, callVars, isFilling, fillBtnDisabled, stopBtnShown, inbox, replyTo>>

\* a click on #stop-fill-btn: stopFill suspends in getActiveTab
ClickStop(t) ==
    /\ FreeTask(t)
    /\ stopBtnShown
    /\ tasks' = [tasks EXCEPT ![t] = [kind |-> "stop", pc |-> "prepare"]]
    /\ UNCHANGED <<fillVars, mapVars, callVars, isFilling, fillBtnDisabled, stopBtnShown, inbox, replyTo>>

\* no active tab, or the content scripts cannot be injected: the fill handler returns
PrepareFails(t) ==
    /\ tasks[t].pc = "prepare"
    /\ tasks[t].kind \in {"fillAll", "fillRow"}
    /\ tasks' = [tasks EXCEPT ![t].pc = "done"]
    /\ UNCHANGED <<fillVars, mapVars, callVars, isFilling, fillBtnDisabled, stopBtnShown, inbox, replyTo>>

\* fillAllRows after its awaits: isFilling = true, the buttons, the fillBatch message
BeginFillAll(t) ==
    /\ tasks[t].pc = "prepare"
    /\ tasks[t].kind = "fillAll"
    /\ isFilling' = TRUE
    /\ stopBtnShown' = TRUE
    /\ fillBtnDisabled' = TRUE
    /\ inbox' = Append(inbox, [action |-> "fillBatch", task |-> t])
    /\ tasks' = [tasks EXCEPT ![t].pc = "await"]
    /\ UNCHANGED <<fillVars, mapVars, callVars, replyTo>>

\* fillCurrentRow after its awaits: isFilling = true, the fillRow message
BeginFillRow(t) ==
    /\ tasks[t].pc = "prepare"
    /\ tasks[t].kind = "fillRow"
    /\ isFilling' = TRUE
    /\ inbox' = Append(inbox, [action |-> "fillRow", task |-> t])
    /\ tasks' = [tasks EXCEPT ![t].pc = "await"]
    /\ UNCHANGED <<fillVars, mapVars, callVars, fillBtnDisabled, stopBtnShown, replyTo>>

\* stopFill with a tab: the stopFill message
BeginStop(t) ==
    /\ tasks[t].pc = "prepare"
    /\ tasks[t].kind = "stop"
    /\ inbox' = Append(inbox, [action |-> "stopFill", task |-> t])
    /\ tasks' = [tasks EXCEPT ![t].pc = "await"]
    /\ UNCHANGED <<fillVars, mapVars, callVars, isFilling, fillBtnDisabled, stopBtnShown, replyTo>>

\* the tail of fillAllRows (after the response) and of stopFill (after the
\* response, or at once without a tab)
FinishWithButtons(t) ==
    /\ \/ tasks[t].pc = "responded" /\ tasks[t].kind \in {"fillAll", "stop"}
       \/ tasks[t].pc = "prepare" /\ tasks[t].kind = "stop"
    /\ isFilling' = FALSE
    /\ stopBtnShown' = FALSE
    /\ fillBtnDisabled' = FALSE
    /\ tasks' = [tasks EXCEPT ![t].pc = "done"]
    /\ UNCHANGED <<fillVars, mapVars, callVars, inbox, replyTo>>

\* the tail of fillCurrentRow
FinishFillRow(t) ==
    /\ tasks[t].pc = "responded"
    /\ tasks[t].kind = "fillRow"
    /\ isFilling' = FALSE
    /\ tasks' = [tasks EXCEPT ![t].pc = "done"]
    /\ UNCHANGED <<fillVars, mapVars, callVars, fillBtnDisabled, stopBtnShown, inbox, replyTo>>

Ended(pc) == pc \in {"returned", "threw"}

\* sendResponse to the handler that awaits it
Responded(ts, t) == IF t = 0 THEN ts ELSE [ts EXCEPT ![t].pc = "responded"]

\* the content script's listener takes the fillBatch message
DeliverFillBatch(b) ==
    /\ inbox # <<>>
    /\ Head(inbox).action = "fillBatch"
    /\ FillBatch(b)
    /\ inbox' = Tail(inbox)
    /\ replyTo' = [replyTo EXCEPT ![b] = Head(inbox).task]
    /\ tasks' = IF Ended(batch'[b].pc) THEN Responded(tasks, Head(inbox).task) ELSE tasks
    /\ UNCHANGED <<mapVars, callVars, isFilling, fillBtnDisabled, stopBtnShown>>

\* the listener takes the stopFill message
DeliverStopFill ==
    /\ inbox # <<>>
    /\ Head(inbox).action = "stopFill"
    /\ StopFill
    /\ inbox' = Tail(inbox)
    /\ tasks' = Responded(tasks, Head(inbox).task)
    /\ UNCHANGED <<mapVars, callVars, isFilling, fillBtnDisabled, stopBtnShown, replyTo>>

\* the listener takes the fillRow message, for the row the popup shows
DeliverFillRow(r) ==
    /\ inbox # <<>>
    /\ Head(inbox).action = "fillRow"
    /\ FillRow(r)
    /\ inbox' = Tail(inbox)
    /\ tasks' = Responded(tasks, Head(inbox).task)
    /\ UNCHANGED <<mapVars, callVars, isFilling, fillBtnDisabled, stopBtnShown, replyTo>>

\* a delay expires in the content script; a batch that ends responds
DelayResumes ==
    /\ DelayExpires
    /\ tasks' = IF Ended(batch'[Head(timers)].pc)
                THEN Responded(tasks, replyTo[Head(timers)])
                ELSE tasks
    /\ UNCHANGED <<mapVars, callVars, isFilling, fillBtnDisabled, stopBtnShown, inbox, replyTo>>

NextPopup ==
    \/ \E t \in TaskIds : \E kind \in {"fillAll", "fillRow"} : ClickFill(t, kind)
    \/ \E t \in TaskIds : ClickStop(t)
    \/ \E t \in TaskIds : PrepareFails(t)
    \/ \E t \in TaskIds : BeginFillAll(t)
    \/ \E t \in TaskIds : BeginFillRow(t)
    \/ \E t \in TaskIds : BeginStop(t)
    \/ \E t \in TaskIds : FinishWithButtons(t)
    \/ \E t \in TaskIds : FinishFillRow(t)
    \/ \E b \in BatchIds : DeliverFillBatch(b)
    \/ DeliverStopFill
    \/ \E r \in 1..Len(reqRows) : DeliverFillRow(r)
    \/ DelayResumes

\* the popup and the content script of one tab
SpecPopup == InitSession /\ [][NextPopup]_vars

(* ------------------------ the mapping session ------------------------- *)

ColEmail == <<"E", "m", "a", "i", "l">>
ColEMail == <<"E", "-", "m", "a", "i", "l">>
ColFullName == <<"F", "u", "l", "l", " ", "N", "a", "m", "e">>
ColPhone == <<"P", "h", "o", "n", "e">>

ColumnPool == {ColEmail, ColEMail, ColFullName, ColPhone}

SelEmail == <<"#", "e", "m", "a", "i", "l">>
SelName == <<"#", "f", "u", "l", "l", "n", "a", "m", "e">>
SelTel == <<"#", "t", "e", "l">>
SelConfirm == <<"#", "e", "m", "a", "i", "l", "2">>
\* a selector no detected field has
SelStale == <<"#", "g", "o", "n", "e">>

FieldEmail ==
    [selector |-> <<"#", "e", "m", "a", "i", "l">>,
     type |-> <<"e", "m", "a", "i", "l">>,
     name |-> <<"e", "m", "a", "i", "l">>,
     id |-> <<"e", "m", "a", "i", "l">>,
     label |-> <<"E", "m", "a", "i", "l", " ", "A", "d", "d", "r", "e", "s", "s">>,
     placeholder |-> <<"y", "o", "u", "@", "e", "x", "a", "m", "p", "l", "e", ".", "c", "o", "m">>,
     ariaLabel |-> <<>>, title |-> <<>>, dataAttrs |-> <<>>, required |-> FALSE]

FieldName ==
    [selector |-> <<"#", "f", "u", "l", "l", "n", "a", "m", "e">>,
     type |-> <<"t", "e", "x", "t">>,
     name |-> <<"f", "u", "l", "l", "n", "a", "m", "e">>,
     id |-> <<>>,
     label |-> <<"F", "u", "l", "l", " ", "N", "a", "m", "e">>,
     placeholder |-> <<>>,
     ariaLabel |-> <<>>, title |-> <<>>, dataAttrs |-> <<>>, required |-> FALSE]

FieldTel ==
    [selector |-> <<"#", "t", "e", "l">>,
     type |-> <<"t", "e", "l">>,
     name |-> <<"t", "e", "l">>,
     id |-> <<>>,
     label |-> <<"M", "o", "b", "i", "l", "e">>,
     placeholder |-> <<>>,
     ariaLabel |-> <<>>, title |-> <<>>, dataAttrs |-> <<>>, required |-> FALSE]

FieldConfirm ==
    [selector |-> SelConfirm,
     type |-> <<"e", "m", "a", "i", "l">>,
     name |-> <<"e", "m", "a", "i", "l", "2">>,
     id |-> <<>>,
     label |-> <<"C", "o", "n", "f", "i", "r", "m", " ", "E", "m", "a", "i", "l">>,
     placeholder |-> <<>>,
     ariaLabel |-> <<>>, title |-> <<>>, dataAttrs |-> <<>>, required |-> FALSE]

FieldPool == {FieldEmail, FieldConfirm, FieldName, FieldTel}

\* lists without repetition, as Object.keys and the detector produce them
Distinct(list) == \A i, j \in 1..Len(list) : list[i] = list[j] => i = j

ListsOf(pool, lo, hi) == {list \in UNION {[1..n -> pool] : n \in lo..hi} : Distinct(list)}

TypeEmail == <<"e", "m", "a", "i", "l">>
TypePhone == <<"p", "h", "o", "n", "e">>
TypeText == <<"t", "e", "x", "t">>

\* the type inferColumnTypes finds for a column of the sheet
InferredType(col) ==
    IF col \in {ColEmail, ColEMail} THEN TypeEmail
    ELSE IF col = ColPhone THEN TypePhone ELSE TypeText

InferredTypes(cols) == [i \in 1..Len(cols) |-> [key |-> cols[i], value |-> InferredType(cols[i])]] \o <<>>

InitFillIdle ==
    /\ reqMapping = FillMapping
    /\ reqRows = <<RowGood>>
    /\ reqSettings = [skipFilled |-> FALSE, stopOnError |-> FALSE, delay |-> 0]
    /\ dom = DomEmpty
    /\ abortController = NoController
    /\ batch = [b \in BatchIds |-> UnusedBatch]
    /\ timers = <<>>
    /\ stopAt = [b \in BatchIds |-> -1]
    /\ alone = [b \in BatchIds |-> TRUE]
    /\ lastFill = NoFill

(* Matcher.autoMap on any columns and fields. *)

InitAuto ==
    /\ InitFillIdle /\ InitPopup /\ InitCallIdle
    /\ columns \in ListsOf(ColumnPool, 1, MaxCols)
    /\ detectedFields \in ListsOf(FieldPool, 0, 2)
    /\ dataTypes \in {<<>>, InferredTypes(columns)}
    /\ currentMapping = <<>>
    /\ manualOverrides = <<>>
    /\ lastMap = NoCall

CallAutoMap ==
    /\ lastMap.op = "none"
    /\ lastMap' = [op |-> "autoMap", result |-> autoMap(columns, detectedFields, dataTypes)]
    /\ UNCHANGED <<fillVars, popupVars, callVars, columns, detectedFields, dataTypes,
                   currentMapping, manualOverrides>>

NextAuto == CallAutoMap

SpecAuto == InitAuto /\ [][NextAuto]_vars

(* Matcher.autoMap on columns and fields that score alike, with the pairs it
   scored kept next to the mapping it returns. *)

ColEmailLower == <<"e", "m", "a", "i", "l">>

\* two forms of one page that each hold an e-mail input of the same name
SelNews == <<"#", "n", "e", "w", "s", " ", ">", " ", "i", "n", "p", "u", "t">>
SelLogin == <<"#", "l", "o", "g", "i", "n", " ", ">", " ", "i", "n", "p", "u", "t">>

FieldNews ==
    [selector |-> SelNews,
     type |-> <<"e", "m", "a", "i", "l">>,
     name |-> <<"e", "m", "a", "i", "l">>,
     id |-> <<>>,
     label |-> <<"E", "m", "a", "i", "l">>,
     placeholder |-> <<>>,
     ariaLabel |-> <<>>, title |-> <<>>, dataAttrs |-> <<>>, required |-> FALSE]

FieldLogin == [FieldNews EXCEPT !.selector = SelLogin]

TieColumns == {ColEmail, ColEmailLower, ColEMail, ColPhone}

TieFields == {FieldNews, FieldLogin, FieldConfirm, FieldTel}

\* the types inferred for these columns: e-mail addresses, or phone numbers
TieTypes(cols) ==
    [i \in 1..Len(cols) |->
        [key |-> cols[i],
         value |-> IF cols[i] = ColPhone THEN TypePhone ELSE TypeEmail]] \o <<>>

InitGreedy ==
    /\ InitFillIdle /\ InitPopup /\ InitCallIdle
    /\ columns \in ListsOf(TieColumns, 1, MaxCols)
    /\ detectedFields \in ListsOf(TieFields, 1, 2)
    /\ dataTypes = TieTypes(columns)
    /\ currentMapping = <<>>
    /\ manualOverrides = <<>>
    /\ lastMap = NoCall

\* Matcher.autoMap(columns, fields, dataTypes): the pairs as the two loops
\* score them, and the mapping the greedy loop builds from them once sorted
CallAutoMapScored ==
    /\ lastMap.op = "none"
    /\ \E pairs \in {scorePairs(columns, detectedFields, dataTypes, 1, <<>>)} :
       \E sorted \in {SortByScore(pairs)} :
          lastMap' = [op |-> "autoMap",
                      result |-> assignPairs(sorted, 1,
                                             [mapping |-> <<>>, usedFields |-> {}]).mapping,
                      pairs |-> pairs]
    /\ UNCHANGED <<fillVars, popupVars, callVars, columns, detectedFields, dataTypes,
                   currentMapping, manualOverrides>>

NextGreedy == CallAutoMapScored

SpecGreedy == InitGreedy /\ [][NextGreedy]_vars

(* Matcher.calculateMatchScore on any column, field and column type. *)

ColMobile == <<"M", "o", "b", "i", "l", "e">>
ColNameTwice == <<"n", "a", "m", "e", "_", "N", "a", "m", "e">>

ScoreColumns == ColumnPool \cup {ColMobile, ColNameTwice}

\* the types the popup infers for a column
DataTypes == {TypeMap[k].dataType : k \in 1..Len(TypeMap)}

InitScore ==
    /\ InitFillIdle /\ InitPopup /\ InitCallIdle
    /\ \E col \in ScoreColumns :
          /\ columns = <<col>>
          /\ dataTypes \in {<<>>} \cup {<<[key |-> col, value |-> t]>> : t \in DataTypes}
    /\ \E field \in FieldPool : detectedFields = <<field>>
    /\ currentMapping = <<>>
    /\ manualOverrides = <<>>
    /\ lastMap = NoCall

\* calculateMatchScore(col, field, dataTypes?.[col]), with the factors it adds up
CallScore ==
    /\ lastMap.op = "none"
    /\ \E col \in {columns[1]} : \E field \in {detectedFields[1]} :
       \E type \in {MapGet(dataTypes, col)} :
          lastMap' = [op |-> "calculateMatchScore",
                      result |-> [name |-> nameScore(col, field),
                                  label |-> labelScore(col, field),
                                  attribute |-> attributeScore(col, field),
                                  synonym |-> synonymScore(col, field),
                                  type |-> typeScore(type, field),
                                  score |-> calculateMatchScore(col, field, type)]]
    /\ UNCHANGED <<fillVars, popupVars, callVars, columns, detectedFields, dataTypes,
                   currentMapping, manualOverrides>>

NextScore == CallScore

SpecScore == InitScore /\ [][NextScore]_vars

(* Mapper.mergeMappings on any auto mapping and manual edits. *)

MergeFields == <<FieldEmail, FieldName, FieldTel>>

\* an entry as autoMap creates it
AutoEntry(field, confidence) ==
    [field |-> field, selector |-> field.selector,
     confidence |-> confidence, level |-> Level(confidence)]

AutoEntries ==
    {AutoEntry(FieldEmail, 80 * ScoreUnit), AutoEntry(FieldName, 60 * ScoreUnit),
     AutoEntry(FieldTel, 30 * ScoreUnit)}

MergeColumns == {ColEmail, ColFullName, ColPhone}

\* mappings with one entry per column and one column per selector
AutoMappings ==
    {m \in UNION {[1..n -> [key : MergeColumns, value : AutoEntries]] : n \in 0..3} :
        \A i, j \in 1..Len(m) :
            (m[i].key = m[j].key \/ m[i].value.selector = m[j].value.selector) => i = j}

ManualSelectors == {<<>>, SelEmail, SelName, SelStale}

ManualMappings ==
    {m \in UNION {[1..n -> [key : MergeColumns, value : ManualSelectors]] : n \in 0..MaxEdits} :
        \A i, j \in 1..Len(m) : m[i].key = m[j].key => i = j}

InitMerge ==
    /\ InitFillIdle /\ InitPopup /\ InitCallIdle
    /\ columns = <<ColEmail, ColFullName, ColPhone>>
    /\ detectedFields = MergeFields
    /\ dataTypes = <<>>
    /\ currentMapping \in AutoMappings
    /\ manualOverrides \in ManualMappings
    /\ lastMap = NoCall

CallMerge ==
    /\ lastMap.op = "none"
    /\ lastMap' = [op |-> "mergeMappings",
                   result |-> mergeMappings(currentMapping, manualOverrides, detectedFields)]
    /\ UNCHANGED <<fillVars, popupVars, callVars, columns, detectedFields, dataTypes,
                   currentMapping, manualOverrides>>

NextMerge == CallMerge

SpecMerge == InitMerge /\ [][NextMerge]_vars

(* Mapper.applySavedProfile on any saved profile and detected fields. *)

\* the saved values: live and stale selectors, with and without a confidence
SavedInfos ==
    {SavedEntry(SelEmail, <<80 * ScoreUnit>>), SavedEntry(SelEmail, <<0>>),
     SavedEntry(SelName, <<>>), SavedEntry(SelStale, <<60 * ScoreUnit>>),
     SavedEntry(<<>>, <<50 * ScoreUnit>>), SavedSelector(SelTel)}

\* profile mappings: one entry per column
SavedProfiles ==
    {m \in UNION {[1..n -> [key : MergeColumns, value : SavedInfos]] : n \in 0..MaxSaved} :
        \A i, j \in 1..Len(m) : m[i].key = m[j].key => i = j}

InitProfile ==
    /\ InitFillIdle /\ InitPopup
    /\ columns = <<ColEmail, ColFullName, ColPhone>>
    /\ detectedFields \in ListsOf(FieldPool, 0, 2)
    /\ dataTypes = <<>>
    /\ currentMapping = <<>>
    /\ manualOverrides = <<>>
    /\ lastMap = NoCall
    /\ profileMapping \in SavedProfiles
    /\ lastPreview = NoPreview
    /\ InitValidIdle
    /\ InitHeapIdle
    /\ InitTextIdle
    /\ InitStorageIdle

\* Mapper.applySavedProfile(profile.mapping, detectedFields)
CallApplyProfile ==
    /\ lastMap.op = "none"
    /\ lastMap' = [op |-> "applySavedProfile",
                   result |-> applySavedProfile(profileMapping, detectedFields)]
    /\ UNCHANGED <<fillVars, popupVars, profileVars, previewVars, textVars, storageVars, validVars, heapVars, columns,
                   detectedFields,
                   dataTypes, currentMapping, manualOverrides>>

NextProfile == CallApplyProfile

SpecProfile == InitProfile /\ [][NextProfile]_vars

(* Mapper.toSerializable followed by Mapper.applySavedProfile, on any session
   mapping and detected fields. *)

\* a saved value without its confidence
serialize_NoConfidence(info) ==
    [kind |-> "object", selector |-> info.selector, confidence |-> <<>>,
     level |-> info.level]

\* result[col] = { selector: info.selector, confidence: info.confidence,
\* level: info.level }
serialize(info) ==
    [kind |-> "object", selector |-> info.selector, confidence |-> <<info.confidence>>,
     level |-> info.level]

\* Mapper.toSerializable
toSerializable(mapping) ==
    [i \in 1..Len(mapping) |->
        [key |-> mapping[i].key, value |-> serialize(mapping[i].value)]] \o <<>>

\* the entries a session mapping can hold: as autoMap creates them, tagged by
\* mergeMappings, written for a manual selection of a live or a stale
\* selector, and loaded from a profile
SessionEntries ==
    AutoEntries
    \cup {TagAuto(AutoEntry(FieldTel, CONFIDENCE.LOW))}
    \cup {ManualEntry(MergeFields, SelEmail), ManualEntry(MergeFields, SelStale)}
    \cup {ProfileEntry(SavedEntry(SelName, <<>>), MergeFields)}

\* session mappings: one entry per column
SessionMappings ==
    {m \in UNION {[1..n -> [key : MergeColumns, value : SessionEntries]] : n \in 0..MaxSaved} :
        \A i, j \in 1..Len(m) : m[i].key = m[j].key => i = j}

InitRoundTrip ==
    /\ InitFillIdle /\ InitPopup /\ InitCallIdle
    /\ columns = <<ColEmail, ColFullName, ColPhone>>
    /\ detectedFields \in ListsOf(FieldPool, 0, 2)
    /\ dataTypes = <<>>
    /\ currentMapping \in SessionMappings
    /\ manualOverrides = <<>>
    /\ lastMap = NoCall

\* Storage.saveProfile(domain, Mapper.toSerializable(currentMapping), settings),
\* then Mapper.applySavedProfile(profile.mapping, detectedFields) on what was saved
CallSaveAndApply ==
    /\ lastMap.op = "none"
    /\ \E saved \in {toSerializable(currentMapping)} :
          lastMap' = [op |-> "roundTrip", saved |-> saved,
                      result |-> applySavedProfile(saved, detectedFields)]
    /\ UNCHANGED <<fillVars, popupVars, callVars, columns, detectedFields, dataTypes,
                   currentMapping, manualOverrides>>

NextRoundTrip == CallSaveAndApply

SpecRoundTrip == InitRoundTrip /\ [][NextRoundTrip]_vars

(* Storage.saveProfile, deleteProfile and updateProfileLastUsed against
   chrome.storage.local, which serves its get and set requests in the order
   they were made. *)

Domains == {"shop.example", "bank.example"}

\* a profile saved before the session
OldProfile(domain) ==
    [key |-> domain, value |-> [mapping |-> 0, lastUsed |-> 0, createdAt |-> 0]]

InitialProfiles == ListsOf({OldProfile(d) : d \in Domains}, 0, 2)

StorageKinds == {"saveProfile", "deleteProfile", "updateProfileLastUsed"}

\* profiles[domain] = { mapping, settings, lastUsed: now,
\*                      createdAt: profiles[domain]?.createdAt || now }
savedProfile(all, domain, now) ==
    MapSet(all, domain,
           [mapping |-> now, lastUsed |-> now,
            createdAt |-> IF MapHas(all, domain) THEN MapGet(all, domain).createdAt
                          ELSE now])

\* profiles[domain].lastUsed = now
touchedProfile(all, domain, now) ==
    MapSet(all, domain, [MapGet(all, domain) EXCEPT !.lastUsed = now])

\* what the call writes back once getAllProfiles has resolved with all; the
\* call made as number now takes now as its `new Date()`
afterGet(kind, domain, now, all) ==
    IF kind = "saveProfile" THEN savedProfile(all, domain, now)
    ELSE IF kind = "deleteProfile" THEN MapDelete(all, domain)
    ELSE touchedProfile(all, domain, now)

\* `if (profiles[domain])` of updateProfileLastUsed: the other two always write
writesBack(kind, domain, all) ==
    kind = "updateProfileLastUsed" => MapHas(all, domain)

StorageInFlight == {o \in 1..Len(storageOps) : storageOps[o].pc # "done"}

StorageFrame ==
    UNCHANGED <<fillVars, popupVars, mapVars, profileVars, previewVars, validVars,
                heapVars, textVars>>

InitStorage ==
    /\ InitFillIdle /\ InitPopup /\ InitMapIdle
    /\ profileMapping = <<>>
    /\ lastPreview = NoPreview
    /\ InitValidIdle
    /\ InitHeapIdle
    /\ InitTextIdle
    /\ profiles \in InitialProfiles
    /\ storageOps = <<>>
    /\ storageQueue = <<>>

\* a call of one of the three functions: it runs up to `await getAllProfiles()`,
\* which hands a get request to chrome.storage.local
CallStorage(kind, domain) ==
    /\ Len(storageOps) < MaxOps
    /\ storageOps' =
          Append([o \in 1..Len(storageOps) |->
                     IF o \in StorageInFlight THEN [storageOps[o] EXCEPT !.lone = FALSE]
                     ELSE storageOps[o]],
                 [kind |-> kind, domain |-> domain, pc |-> "get",
                  lone |-> StorageInFlight = {}])
    /\ storageQueue' = Append(storageQueue, [op |-> Len(storageOps) + 1, kind |-> "get",
                                             value |-> <<>>])
    /\ UNCHANGED profiles
    /\ StorageFrame

\* the oldest request is a get: its call resumes with what is stored, changes
\* its copy and hands it to `_set`, or returns without a write
ServeGet ==
    /\ storageQueue # <<>>
    /\ Head(storageQueue).kind = "get"
    /\ \E o \in {Head(storageQueue).op} :
          IF writesBack(storageOps[o].kind, storageOps[o].domain, profiles)
          THEN /\ storageOps' = [storageOps EXCEPT ![o].pc = "set"]
               /\ storageQueue' =
                     Append(Tail(storageQueue),
                            [op |-> o, kind |-> "set",
                             value |-> afterGet(storageOps[o].kind, storageOps[o].domain,
                                                o, profiles)])
          ELSE /\ storageOps' = [storageOps EXCEPT ![o].pc = "done"]
               /\ storageQueue' = Tail(storageQueue)
    /\ UNCHANGED profiles
    /\ StorageFrame

\* the oldest request is a set: the stored object is replaced and the call returns
ServeSet ==
    /\ storageQueue # <<>>
    /\ Head(storageQueue).kind = "set"
    /\ profiles' = Head(storageQueue).value
    /\ storageOps' = [storageOps EXCEPT ![Head(storageQueue).op].pc = "done"]
    /\ storageQueue' = Tail(storageQueue)
    /\ StorageFrame

NextStorage ==
    \/ \E kind \in StorageKinds : \E domain \in Domains : CallStorage(kind, domain)
    \/ ServeGet
    \/ ServeSet

SpecStorage == InitStorage /\ [][NextStorage]_vars

(* Validator.validate and Validator.validateSelect on any value and field. *)

OptsColors ==
    << [value |-> <<"1">>, text |-> <<"D", "a", "r", "k", " ", "R", "e", "d">>],
       [value |-> <<"2">>, text |-> <<"R", "e", "d">>],
       [value |-> <<"R", "E", "D">>, text |-> <<"B", "l", "u", "e">>] >>

OptsSizes ==
    << [value |-> <<"s">>, text |-> <<"S", "m", "a", "l", "l", " ", "S", "i", "z", "e">>],
       [value |-> <<"m">>, text |-> <<"S", "i", "z", "e">>] >>

OptsCount ==
    << [value |-> <<"0">>, text |-> <<"N", "o", "n", "e">>],
       [value |-> <<"1">>, text |-> <<"O", "n", "e">>] >>

OptionLists == {<<>>, OptsColors, OptsSizes, OptsCount}

\* the values a row can hold: texts, numbers, and what a missing column gives
ValuePool ==
    {UNDEFINED, NULL, <<>>, <<" ">>, Num(<<"0">>), Num(<<"1">>), Num(<<"4", "2">>),
     <<"r", "e", "d">>, <<" ", "R", "e", "d", " ">>, <<"B", "l", "u", "e">>,
     <<"d", "a", "r", "k">>, <<"s", "i", "z", "e">>, <<"z", "z">>,
     <<"a", "@", "b", ".", "c">>, <<"5", "5", "5", "-", "1", "2", "3", "4">>,
     <<"2", "0", "2", "4", "-", "0", "1", "-", "0", "5">>, <<"a", ".", "b">>}

SelectTypes == {"select", "select-one", "select-multiple"}

FieldDescriptors ==
    {FieldOf(t, r, <<>>, UNDEFINED, UNDEFINED) :
        t \in {"", "text", "email", "EMAIL", "tel", "date", "datetime-local", "url",
               "checkbox"},
        r \in BOOLEAN}
    \cup {FieldOf(t, r, <<>>, min, UNDEFINED) :
            t \in {"number", "range"}, r \in BOOLEAN, min \in {NULL, <<"1", "0">>}}
    \cup {FieldOf(t, r, o, UNDEFINED, UNDEFINED) :
            t \in SelectTypes \cup {"Select-One"}, r \in BOOLEAN, o \in OptionLists}

InitValidate ==
    /\ InitFillIdle /\ InitPopup /\ InitMapIdle
    /\ profileMapping = <<>>
    /\ lastPreview = NoPreview
    /\ InitHeapIdle
    /\ InitTextIdle
    /\ InitStorageIdle
    /\ vValue \in ValuePool
    /\ vField \in FieldDescriptors
    /\ typeOf(vField) \in {"date", "datetime-local"} => DateModelled(vValue)
    /\ lastValid = NoCall

\* Validator.validate(value, field)
CallValidate ==
    /\ lastValid.op = "none"
    /\ lastValid' = [op |-> "validate", result |-> validate(vValue, vField)]
    /\ UNCHANGED <<fillVars, popupVars, mapVars, profileVars, previewVars, textVars, storageVars, heapVars, vValue,
                   vField>>

\* Validator.validateSelect(value, field.options)
CallValidateSelect ==
    /\ lastValid.op = "none"
    /\ typeOf(vField) \in SelectTypes
    /\ lastValid' = [op |-> "validateSelect", result |-> validateSelect(vValue, vField.options)]
    /\ UNCHANGED <<fillVars, popupVars, mapVars, profileVars, previewVars, textVars, storageVars, heapVars, vValue,
                   vField>>

NextValidate == CallValidate \/ CallValidateSelect

SpecValidate == InitValidate /\ [][NextValidate]_vars

(* The Matcher's string utilities on any two strings. *)

Alphabet == {"a", "b", "c"}

\* the words over the alphabet, the empty one included
Words == UNION {[1..n -> Alphabet] : n \in 0..MaxWord}

TextPhone == <<"p", "h", "o", "n", "e">>
TextMobile == <<"m", "o", "b", "i", "l", "e">>

WordPairs == (Words \X Words) \cup {<<TextPhone, TextMobile>>, <<TextMobile, TextPhone>>}

TextCamel == <<"f", "i", "r", "s", "t", "N", "a", "m", "e">>
TextSnake == <<"f", "i", "r", "s", "t", "_", "n", "a", "m", "e">>
TextSpaced == <<"f", "i", "r", "s", "t", " ", "n", "a", "m", "e">>
TextHyphen == <<"F", "i", "r", "s", "t", "-", "N", "a", "m", "e">>
TextDotted == <<"f", "i", "r", "s", "t", ".", "n", "a", "m", "e">>
TextPadded == <<" ", "f", "i", "r", "s", "t", " ", " ", "n", "a", "m", "e", " ">>
TextNameName == <<"n", "a", "m", "e", " ", "n", "a", "m", "e">>
TextNameFirst == <<"n", "a", "m", "e", " ", "f", "i", "r", "s", "t">>
TextNameNameId == <<"n", "a", "m", "e", " ", "n", "a", "m", "e", " ", "i", "d">>
TextNameOfUser == <<"n", "a", "m", "e", " ", "o", "f", " ", "u", "s", "e", "r">>

\* column and field names in their usual spellings, some with a repeated word
TextNames == {UNDEFINED, TextCamel, TextSnake, TextSpaced, TextHyphen, TextDotted,
              TextPadded, TextNameName, TextNameFirst, TextNameNameId, TextNameOfUser}

TextPairs == WordPairs \cup (TextNames \X TextNames)

InitText ==
    /\ InitFillIdle /\ InitPopup /\ InitMapIdle
    /\ profileMapping = <<>>
    /\ lastPreview = NoPreview
    /\ InitValidIdle
    /\ InitHeapIdle
    /\ InitStorageIdle
    /\ \E p \in TextPairs : textA = p[1] /\ textB = p[2]
    /\ lastText = NoCall

TextIdle == lastText.op = "none"

TextFrame == UNCHANGED <<fillVars, popupVars, mapVars, profileVars, previewVars, validVars,
                         heapVars, storageVars, textA, textB>>

\* levenshtein(na, nb), as stringSimilarity calls it
CallLevenshtein ==
    /\ TextIdle
    /\ lastText' = [op |-> "levenshtein", result |-> levenshtein(textA, textB)]
    /\ TextFrame

\* `const na = normalize(a); const nb = normalize(b);` of stringSimilarity
CallNormalize ==
    /\ TextIdle
    /\ lastText' = [op |-> "normalize", result |-> <<normalize(textA), normalize(textB)>>]
    /\ TextFrame

\* `const tokA = tokenize(a); const tokB = tokenize(b);` of tokenOverlap
CallTokenize ==
    /\ TextIdle
    /\ lastText' = [op |-> "tokenize", result |-> <<tokenize(textA), tokenize(textB)>>]
    /\ TextFrame

\* tokenOverlap(a, b), as compareStrings calls it
CallTokenOverlap ==
    /\ TextIdle
    /\ lastText' = [op |-> "tokenOverlap", result |-> tokenOverlap(textA, textB)]
    /\ TextFrame

NextText == CallLevenshtein \/ CallNormalize \/ CallTokenize \/ CallTokenOverlap

SpecText == InitText /\ [][NextText]_vars

(* areSynonyms and Matcher.synonymScore on any two terms of the table. *)

\* the canonical name of group k and the variants listed under it
GroupTerms(k) ==
    {SYNONYMS[k].canonical} \cup
    {SYNONYMS[k].synonyms[i] : i \in 1..Len(SYNONYMS[k].synonyms)}

TextFullName == <<"F", "u", "l", "l", " ", "N", "a", "m", "e">>
TextEMail == <<"E", "-", "M", "a", "i", "l">>
TextShoeSize == <<"s", "h", "o", "e", "_", "s", "i", "z", "e">>

\* every two terms of one group, and some pairs across groups and off the table
TermPairs ==
    UNION {GroupTerms(k) \X GroupTerms(k) : k \in 1..Len(SYNONYMS)}
    \cup ({TextFullName, TextEMail, TextShoeSize, TextPhone} \X
          {TextFullName, TextEMail, TextShoeSize, TextMobile})

\* a detected field known by its name attribute only
FieldNamed(term) ==
    [selector |-> <<"#", "f">>, type |-> <<"t", "e", "x", "t">>, name |-> term, id |-> <<>>,
     label |-> <<>>, placeholder |-> <<>>, ariaLabel |-> <<>>, title |-> <<>>,
     dataAttrs |-> <<>>, required |-> FALSE]

InitSynonyms ==
    /\ InitFillIdle /\ InitPopup /\ InitMapIdle
    /\ profileMapping = <<>>
    /\ lastPreview = NoPreview
    /\ InitValidIdle
    /\ InitHeapIdle
    /\ InitStorageIdle
    /\ \E p \in TermPairs : textA = p[1] /\ textB = p[2]
    /\ lastText = NoCall

\* areSynonyms(termA, termB)
CallAreSynonyms ==
    /\ TextIdle
    /\ lastText' = [op |-> "areSynonyms", result |-> areSynonyms(textA, textB)]
    /\ TextFrame

\* Matcher.synonymScore(column, field)
CallSynonymScore ==
    /\ TextIdle
    /\ lastText' = [op |-> "synonymScore", result |-> synonymScore(textA, FieldNamed(textB))]
    /\ TextFrame

NextSynonyms == CallAreSynonyms \/ CallSynonymScore

SpecSynonyms == InitSynonyms /\ [][NextSynonyms]_vars

(* Matcher.autoMap, Mapper.mergeMappings and Mapper.applySavedProfile called
   on the caller's objects, one call after another. *)

\* the caller's objects, in the order they are put on the heap
Refs == [columns |-> 1, fields |-> 2, dataTypes |-> 3, mapping |-> 4, manual |-> 5,
         profile |-> 6]

CallerObjects ==
    { <<cols, MergeFields, <<>>, auto, manual, profile>> :
        cols \in {<<ColEmail, ColFullName>>},
        auto \in {m \in AutoMappings : Len(m) = 2},
        manual \in {m \in ManualMappings : Len(m) = 1 /\ m[1].key = ColEmail},
        profile \in {<<[key |-> ColPhone, value |-> SavedEntry(SelTel, <<>>)],
                       [key |-> ColEmail, value |-> SavedEntry(SelStale, <<>>)]>>} }

InitHeap ==
    /\ InitFillIdle /\ InitPopup /\ InitMapIdle
    /\ profileMapping = <<>>
    /\ lastPreview = NoPreview
    /\ InitValidIdle
    /\ InitTextIdle
    /\ InitStorageIdle
    /\ heap \in CallerObjects
    /\ lastCall = [op |-> "none", args |-> <<>>, result |-> 0]

\* the mappings a caller can hand to mergeMappings: its own, or one returned earlier
MappingRefs == {Refs.mapping} \cup ((Refs.profile + 1)..Len(heap))

CallsLeft == Len(heap) < Refs.profile + MaxCalls

HeapAutoMap ==
    /\ CallsLeft
    /\ \E out \in {autoMapCall(heap, Refs.columns, Refs.fields, Refs.dataTypes)} :
          /\ heap' = out.heap
          /\ lastCall' = [op |-> "autoMap", args |-> <<Refs.columns, Refs.fields, Refs.dataTypes>>,
                          result |-> out.result]
    /\ UNCHANGED <<fillVars, popupVars, mapVars, profileVars, previewVars, textVars, storageVars, validVars>>

HeapMerge(a) ==
    /\ CallsLeft
    /\ \E out \in {mergeCall(heap, a, Refs.manual, Refs.fields)} :
          /\ heap' = out.heap
          /\ lastCall' = [op |-> "mergeMappings", args |-> <<a, Refs.manual, Refs.fields>>,
                          result |-> out.result]
    /\ UNCHANGED <<fillVars, popupVars, mapVars, profileVars, previewVars, textVars, storageVars, validVars>>

HeapApplyProfile ==
    /\ CallsLeft
    /\ \E out \in {applyProfileCall(heap, Refs.profile, Refs.fields)} :
          /\ heap' = out.heap
          /\ lastCall' = [op |-> "applySavedProfile", args |-> <<Refs.profile, Refs.fields>>,
                          result |-> out.result]
    /\ UNCHANGED <<fillVars, popupVars, mapVars, profileVars, previewVars, textVars, storageVars, validVars>>

NextHeap ==
    \/ HeapAutoMap
    \/ \E a \in MappingRefs : HeapMerge(a)
    \/ HeapApplyProfile

SpecHeap == InitHeap /\ [][NextHeap]_vars

(* The popup's mapping grid: Auto-Map, a selection in a dropdown, Clear. *)

InitMap ==
    /\ InitFillIdle /\ InitPopup /\ InitCallIdle
    /\ columns \in {<<ColEmail, ColEMail>>, <<ColFullName, ColEmail>>, <<ColPhone, ColEMail>>}
    /\ detectedFields \in {<<FieldEmail, FieldName>>, <<FieldTel, FieldEmail>>}
    /\ dataTypes = InferredTypes(columns)
    /\ currentMapping = <<>>
    /\ manualOverrides = <<>>
    /\ lastMap = NoCall

\* runAutoMap
RunAutoMap ==
    /\ Len(columns) # 0 /\ Len(detectedFields) # 0
    /\ \E auto \in {autoMap(columns, detectedFields, dataTypes)} :
          currentMapping' =
              IF Len(manualOverrides) > 0
              THEN mergeMappings(auto, manualOverrides, detectedFields)
              ELSE auto
    /\ UNCHANGED <<fillVars, popupVars, callVars, columns, detectedFields, dataTypes,
                   manualOverrides, lastMap>>

\* the options of a dropdown: not mapped, or one of the detected fields
Options == {<<>>} \cup {detectedFields[i].selector : i \in 1..Len(detectedFields)}

\* the change handler of the dropdown of column col
SelectChange(col, selector) ==
    /\ manualOverrides' = MapSet(manualOverrides, col, selector)
    /\ currentMapping' =
          mergeMappings(currentMapping, <<[key |-> col, value |-> selector]>>, detectedFields)
    /\ UNCHANGED <<fillVars, popupVars, callVars, columns, detectedFields, dataTypes, lastMap>>

\* clearMappings
ClearMappings ==
    /\ currentMapping' = <<>>
    /\ manualOverrides' = <<>>
    /\ UNCHANGED <<fillVars, popupVars, callVars, columns, detectedFields, dataTypes, lastMap>>

NextMap ==
    \/ RunAutoMap
    \/ \E i \in 1..Len(columns) : \E selector \in Options : SelectChange(columns[i], selector)
    \/ ClearMappings

SpecMap == InitMap /\ [][NextMap]_vars

(* ------------------------ claims on the mapping ----------------------- *)

SelectorsUnique(m) ==
    \A i, j \in 1..Len(m) : m[i].value.selector = m[j].value.selector => i = j

ColumnsUnique(m) == \A i, j \in 1..Len(m) : m[i].key = m[j].key => i = j

\* C1: the mapping autoMap returns references each selector from at most one
\* column and holds at most one entry per column.
Thm_C1_AutoMapUnique ==
    lastMap.op = "autoMap" =>
        SelectorsUnique(lastMap.result) /\ ColumnsUnique(lastMap.result)

ScoreOf(col, field) == calculateMatchScore(col, field, MapGet(dataTypes, col))

\* autoMap has run on two columns that both score highest, and above the low
\* threshold, on the same field: the better one took it and the other one got
\* its second choice
Wit_C1_TwoColumnsWantOneField ==
    /\ lastMap.op = "autoMap"
    /\ columns = <<ColEMail, ColEmail>>
    /\ detectedFields = <<FieldEmail, FieldConfirm>>
    /\ \A i \in 1..2 :
          /\ ScoreOf(columns[i], FieldEmail) >= CONFIDENCE.LOW
          /\ ScoreOf(columns[i], FieldEmail) > ScoreOf(columns[i], FieldConfirm)
    /\ MapGet(lastMap.result, ColEmail).selector = SelEmail
    /\ MapGet(lastMap.result, ColEMail).selector = SelConfirm

\* C2: in the popup's session, after Auto-Map and any manual selections the
\* current mapping has at most one column referencing each selector.
CE_C2_MergeKeepsSelectorsUnique == SelectorsUnique(currentMapping)

Merged == lastMap.op = "mergeMappings"

\* the entry equals the auto entry with source = auto added
TaggedCopy(entry, info) ==
    /\ entry.field = info.field
    /\ entry.selector = info.selector
    /\ entry.confidence = info.confidence
    /\ entry.level = info.level
    /\ entry.source = "auto"

\* C9: merge(auto, {}, fields) has exactly the columns of auto, each entry
\* equal to the auto entry with source = auto added.
Thm_C9_MergeNoEditsIsTagging ==
    (Merged /\ manualOverrides = <<>>) =>
        /\ Len(lastMap.result) = Len(currentMapping)
        /\ \A i \in 1..Len(currentMapping) :
              /\ lastMap.result[i].key = currentMapping[i].key
              /\ TaggedCopy(lastMap.result[i].value, currentMapping[i].value)

Wit_C9_ThreeEntriesNoEdits ==
    Merged /\ manualOverrides = <<>> /\ Len(currentMapping) = 3

\* the detected field with the selector, or the null field
FieldWith(selector) ==
    IF \E i \in 1..Len(detectedFields) : detectedFields[i].selector = selector
    THEN CHOOSE f \in {detectedFields[i] : i \in 1..Len(detectedFields)} : f.selector = selector
    ELSE NullField

\* C10: per column, a non-empty manual selector wins with confidence 1.0, level
\* high, source manual and the field of that selector (null if none); an empty
\* manual selector removes the column; any other column keeps its auto entry.
Thm_C10_ManualWins ==
    Merged =>
        \A col \in MergeColumns :
            IF MapHas(manualOverrides, col)
            THEN IF MapGet(manualOverrides, col) = <<>>
                 THEN ~MapHas(lastMap.result, col)
                 ELSE /\ MapHas(lastMap.result, col)
                      /\ MapGet(lastMap.result, col) =
                            [field |-> FieldWith(MapGet(manualOverrides, col)),
                             selector |-> MapGet(manualOverrides, col),
                             confidence |-> ScoreOne, level |-> "high", source |-> "manual"]
            ELSE /\ MapHas(lastMap.result, col) <=> MapHas(currentMapping, col)
                 /\ MapHas(currentMapping, col) =>
                        TaggedCopy(MapGet(lastMap.result, col), MapGet(currentMapping, col))

\* a merge where one column is re-pointed by hand to a stale selector, one is
\* unmapped by hand, and a third keeps its auto entry
Wit_C10_OverrideUnmapAndKeep ==
    /\ Merged
    /\ Len(currentMapping) = 3
    /\ \E a, b \in MergeColumns :
          /\ a # b
          /\ MapHas(manualOverrides, a) /\ MapGet(manualOverrides, a) = SelStale
          /\ MapHas(manualOverrides, b) /\ MapGet(manualOverrides, b) = <<>>
          /\ MapGet(lastMap.result, a).field = NullField
          /\ Len(lastMap.result) = 2

(* ----------------------- claims on the fill session ------------------- *)

RECURSIVE SumFilled(_)
SumFilled(results) ==
    IF results = <<>> THEN 0
    ELSE (IF Head(results).aborted THEN 0 ELSE Head(results).filled) + SumFilled(Tail(results))

RECURSIVE SumErrors(_)
SumErrors(results) ==
    IF results = <<>> THEN 0
    ELSE (IF Head(results).aborted THEN 0 ELSE Len(Head(results).errors))
         + SumErrors(Tail(results))

\* the per-row entries of invocation b's results (the aborted marker left out)
RowResults(b) == SelectSeq(batch[b].results, LAMBDA e : ~e.aborted)

HasMarker(b) == \E k \in 1..Len(batch[b].results) : batch[b].results[k].aborted

Returned(b) == batch[b].pc = "returned"

\* C3: after stop() was called on a fillBatch suspended between two rows, its
\* BatchResult holds an aborted entry and results.length < rows.length.
CE_C3_StopShortensResults ==
    \A b \in BatchIds :
        (Returned(b) /\ stopAt[b] >= 0) =>
            (HasMarker(b) /\ Len(batch[b].results) < Len(reqRows))

\* A batch that no other invocation overlaps: after stop() was called on it
\* between two rows, its BatchResult is the k < rows.length rows processed
\* before the call followed by the marker {row: k, aborted: true}, so that
\* results.length = k + 1 <= rows.length.
LoneBatchStopAppendsMarker ==
    \A b \in BatchIds :
        (Returned(b) /\ stopAt[b] >= 0 /\ alone[b]) =>
            LET r == batch[b].results IN
            /\ Len(r) = stopAt[b] + 1
            /\ r[Len(r)] = [row |-> stopAt[b], aborted |-> TRUE]
            /\ \A k \in 1..(Len(r) - 1) : ~r[k].aborted /\ r[k].row = k - 1
            /\ stopAt[b] < Len(reqRows)
            /\ Len(r) <= Len(reqRows)

\* a lone batch stopped in its last delay: the marker is the rows.length-th entry
LoneBatchStoppedInLastDelay ==
    \E b \in BatchIds :
        /\ Returned(b) /\ stopAt[b] >= 1 /\ alone[b]
        /\ HasMarker(b)
        /\ Len(batch[b].results) = Len(reqRows)

CE_C6_BatchNeverThrows == \A b \in BatchIds : batch[b].pc # "threw"

\* C8: once stop() has been called on a running batch, that batch processes
\* no further row, and it ends with the aborted marker.
CE_C8_StoppedBatchStartsNoRow ==
    \A b \in BatchIds :
        stopAt[b] >= 0 =>
            /\ Len(RowResults(b)) = stopAt[b]
            /\ batch[b].pc # "threw"
            /\ Returned(b) => HasMarker(b)

(* ------------------------- claims on the popup ------------------------- *)

\* C7: the popup never has a second fillBatch started in the content script
\* while an earlier one is still running, and isFilling is set whenever a
\* batch is in flight.
CE_C7_OneBatchAtATime ==
    /\ Cardinality({b \in BatchIds : InFlight(b)}) <= 1
    /\ \A b \in BatchIds : InFlight(b) => isFilling

(* ------------------------- claims on fillRow -------------------------- *)

HasSelector(k) == reqMapping[k].selector # ""

\* what fillField does for entry k of the request on the page as it was
\* before the request (the selectors of a mapping are distinct)
Outcome(k) ==
    fillField(lastFill.before, reqMapping[k].selector,
              RowValue(reqRows[lastFill.row], reqMapping[k].column),
              FieldMeta(reqMapping[k]), reqSettings)

Fails(k) == HasSelector(k) /\ ~Outcome(k).success

FirstFailing ==
    CHOOSE k \in 1..Len(reqMapping) : Fails(k) /\ \A j \in 1..(k - 1) : ~Fails(j)

\* the columns of the entries with a selector among the first n
RECURSIVE ColumnsUpTo(_)
ColumnsUpTo(n) ==
    IF n = 0 THEN <<>>
    ELSE IF HasSelector(n) THEN Append(ColumnsUpTo(n - 1), reqMapping[n].column)
    ELSE ColumnsUpTo(n - 1)

\* C4: with stopOnError set, fillRow returns at the first failing entry:
\* success=false, errors holds that one error, filled and skipped count the
\* entries before it, no later entry is attempted or written, and the fields
\* written before it stay written.
Thm_C4_StopOnFirstError ==
    (lastFill.called /\ reqSettings.stopOnError
        /\ \E k \in 1..Len(reqMapping) : Fails(k)) =>
    LET f == FirstFailing
        res == lastFill.result
        before == {j \in 1..(f - 1) : HasSelector(j)}
    IN /\ res.success = FALSE
       /\ res.errors = << [column |-> reqMapping[f].column,
                           selector |-> reqMapping[f].selector,
                           error |-> Outcome(f).error] >>
       /\ res.filled = Cardinality({j \in before : ~Outcome(j).skipped})
       /\ res.skipped = Cardinality({j \in before : Outcome(j).skipped})
       /\ res.attempted = ColumnsUpTo(f)
       /\ \A j \in before :
              res.dom[reqMapping[j].selector] = Outcome(j).dom[reqMapping[j].selector]
       /\ \A j \in (f + 1)..Len(reqMapping) :
              HasSelector(j) =>
                  res.dom[reqMapping[j].selector] = lastFill.before[reqMapping[j].selector]

\* the second of three entries fails after the first was written, and the
\* third, which would have been written, is left alone
Wit_C4_SecondOfThreeFails ==
    /\ lastFill.called /\ reqSettings.stopOnError
    /\ Len(reqMapping) = 3
    /\ \A k \in 1..3 : HasSelector(k)
    /\ ~Fails(1) /\ Fails(2) /\ ~Fails(3)
    /\ lastFill.result.filled = 1
    /\ Len(lastFill.result.errors) = 1
    /\ Outcome(1).dom # lastFill.before
    /\ Outcome(3).dom # lastFill.before
    /\ lastFill.result.dom[reqMapping[3].selector] = lastFill.before[reqMapping[3].selector]


(* ------------------------ claims on saved profiles -------------------- *)

Applied == lastMap.op = "applySavedProfile"

\* the selector a saved value names
SavedSelectorOf(info) == info.selector

\* the saved columns whose selector is the selector of a detected field
LiveColumns ==
    LET live(k) == \E i \in 1..Len(detectedFields) :
                       detectedFields[i].selector = SavedSelectorOf(profileMapping[k].value)
        F[k \in 0..Len(profileMapping)] ==
            IF k = 0 THEN <<>>
            ELSE IF live(k) THEN Append(F[k - 1], profileMapping[k].key) ELSE F[k - 1]
    IN F[Len(profileMapping)]

\* C11: applySavedProfile returns exactly the saved columns whose selector is
\* the selector of a detected field, each on that selector and that field, and
\* drops every other saved entry; with no detected field the result is empty.
Thm_C11_ProfileKeepsLiveSelectors ==
    Applied =>
        /\ MapKeys(lastMap.result) = LiveColumns
        /\ \A i \in 1..Len(lastMap.result) :
              /\ lastMap.result[i].value.selector =
                     SavedSelectorOf(MapGet(profileMapping, lastMap.result[i].key))
              /\ lastMap.result[i].value.field.selector = lastMap.result[i].value.selector
        /\ (detectedFields = <<>> => lastMap.result = <<>>)

\* a profile with a live entry and a stale one, applied: one kept, one dropped
Wit_C11_LiveKeptStaleDropped ==
    /\ Applied
    /\ Len(profileMapping) = 2
    /\ profileMapping[1].value = SavedEntry(SelStale, <<60 * ScoreUnit>>)
    /\ profileMapping[2].value = SavedSelector(SelTel)
    /\ MapKeys(lastMap.result) = <<profileMapping[2].key>>

\* C12: every entry applySavedProfile returns has source profile and level
\* high, the persisted confidence when one is persisted (0 included), and 0.9
\* when none is.
CE_C12_ProfileKeepsPersistedConfidence ==
    Applied =>
        \A i \in 1..Len(lastMap.result) :
            LET entry == lastMap.result[i].value
                saved == MapGet(profileMapping, lastMap.result[i].key)
            IN /\ entry.source = "profile"
               /\ entry.level = "high"
               /\ entry.confidence = IF saved.confidence = <<>> THEN DefaultConfidence
                                     ELSE saved.confidence[1]


(* --------------------------- claims on preview ------------------------ *)

\* C14: a preview writes nothing: across every preview response the value of
\* every target, the abort flag, the mapping and the running batches are the
\* same after it as before it, however many previews are made.
Thm_C14_PreviewWritesNothing ==
    [][lastPreview' # lastPreview =>
          /\ dom' = dom
          /\ abortController' = abortController
          /\ reqMapping' = reqMapping
          /\ batch' = batch]_vars

\* the second preview, made while a batch waits in its delay (the abort flag
\* exists), of a row whose values differ from what the targets hold
Wit_C14_PreviewDuringBatch ==
    /\ lastPreview.count = MaxPreviews
    /\ ~abortController.isNull
    /\ \E b \in BatchIds : InFlight(b)
    /\ \E k \in 1..Len(lastPreview.preview) :
          /\ lastPreview.preview[k].valid
          /\ lastPreview.preview[k].newValue # lastPreview.preview[k].currentValue
          /\ dom[lastPreview.preview[k].selector] = lastPreview.preview[k].currentValue


(* ------------------------- claims on fillRow runs --------------------- *)

\* fillRow run again on the page the recorded run left, with the same mapping,
\* row and settings
SecondRun == fillRow(lastFill.result.dom, reqMapping, reqRows[lastFill.row], reqSettings)

\* C15: running fillRow a second time with the same mapping, row and settings
\* leaves every target as the first run left it.
Thm_C15_FillRowIdempotent ==
    lastFill.called => SecondRun.dom = lastFill.result.dom

\* a run with skipFilled that changed the page; the second run skips what the
\* first one filled
Wit_C15_SecondRunSkips ==
    /\ lastFill.called
    /\ reqSettings.skipFilled
    /\ lastFill.result.dom # lastFill.before
    /\ lastFill.result.filled > 0
    /\ SecondRun.skipped > lastFill.result.skipped


(* ----------------------- claims on missing targets -------------------- *)

\* the entries of the request's mapping whose selector finds no element
MissingEntries == {k \in 1..Len(reqMapping) :
                      reqMapping[k].selector # "" /\ dom[reqMapping[k].selector] = ABSENT}

\* the error records of a row result for entry k
ErrorsFor(res, k) ==
    {n \in 1..Len(res.errors) : res.errors[n].column = reqMapping[k].column}

\* C16: an entry whose selector finds no element is a failure of that field
\* only: it adds one {column, selector, error} record to the row's errors,
\* and with stopOnError unset the other entries of the row are still processed
\* and a batch that runs to its end unstopped still processes every row.
Thm_C16_MissingTargetIsPerField ==
    ~reqSettings.stopOnError =>
        \A b \in BatchIds :
            /\ \A n \in 1..Len(RowResults(b)) :
                  LET res == RowResults(b)[n] IN
                  /\ \A k \in MissingEntries :
                        /\ Cardinality(ErrorsFor(res, k)) = 1
                        /\ \A e \in ErrorsFor(res, k) :
                              res.errors[e] = [column |-> reqMapping[k].column,
                                               selector |-> reqMapping[k].selector,
                                               error |-> "Element not found: "
                                                             \o reqMapping[k].selector]
                  /\ res.filled + res.skipped + Len(res.errors) =
                         Cardinality({k \in 1..Len(reqMapping) : reqMapping[k].selector # ""})
            /\ (Returned(b) /\ stopAt[b] = -1) => Len(RowResults(b)) = Len(reqRows)

\* a batch over two rows or more on a page without the first column's target:
\* every row records that one failure, and the later fields are filled
Wit_C16_FirstTargetMissing ==
    \E b \in BatchIds :
        /\ Returned(b) /\ ~reqSettings.stopOnError /\ stopAt[b] = -1
        /\ MissingEntries = {1}
        /\ Len(reqRows) >= 2
        /\ Len(RowResults(b)) = Len(reqRows)
        /\ \A n \in 1..Len(RowResults(b)) :
              /\ Len(RowResults(b)[n].errors) >= 1
              /\ RowResults(b)[n].errors[1].selector = "#name"
        /\ RowResults(b)[1].filled >= 1


(* --------------------------- claims on scores ------------------------- *)

Scored == lastMap.op = "calculateMatchScore"

\* a factor between 0 and 1
InUnit(x) == 0 <= x /\ x <= ScoreUnit

\* the texts of a field the factors compare a column with
FieldTexts(field) ==
    Present(field, {"name", "id", "label", "ariaLabel", "placeholder", "title"})

\* C17: for every column, field and column type the five factors and the
\* string measures they are built from lie in [0, 1], and calculateMatchScore
\* lies in [0, 1].
Thm_C17_ScoresInUnitInterval ==
    Scored =>
        /\ InUnit(lastMap.result.name)
        /\ InUnit(lastMap.result.label)
        /\ InUnit(lastMap.result.attribute)
        /\ InUnit(lastMap.result.synonym)
        /\ InUnit(lastMap.result.type)
        /\ 0 <= lastMap.result.score /\ lastMap.result.score <= ScoreOne
        /\ \A v \in FieldTexts(detectedFields[1]) :
              /\ InUnit(stringSimilarity(columns[1], v))
              /\ InUnit(tokenOverlap(columns[1], v))
              /\ InUnit(compareStrings(columns[1], v))

\* a scored pair with factors at 1 and at 0 and a score strictly inside the
\* interval, whose column is further from the field's label than the column
\* is long
Wit_C17_FactorsAtBothEnds ==
    /\ Scored
    /\ columns = <<ColEmail>>
    /\ detectedFields = <<FieldName>>
    /\ lastMap.result.type = ScoreUnit
    /\ lastMap.result.synonym = 0
    /\ 0 < lastMap.result.score /\ lastMap.result.score < ScoreOne
    /\ levenshtein(normalize(ColEmail), normalize(FieldName.label))
           > Min2(Len(normalize(ColEmail)), Len(normalize(FieldName.label)))

\* the entries of the mapping autoMap returned
AutoEntriesMade == {lastMap.result[i].value : i \in 1..Len(lastMap.result)}

\* C18: every entry autoMap creates has a confidence of at least 0.25, and its
\* level is the bucket of that confidence: high iff it is at least 0.75,
\* medium iff it is in [0.50, 0.75), low iff it is in [0.25, 0.50).
Thm_C18_LevelIsBucketOfConfidence ==
    lastMap.op = "autoMap" =>
        \A e \in AutoEntriesMade :
            /\ e.confidence >= 25 * ScoreUnit
            /\ e.level \in {"high", "medium", "low"}
            /\ e.level = "high" <=> e.confidence >= 75 * ScoreUnit
            /\ e.level = "medium" <=>
                   (50 * ScoreUnit <= e.confidence /\ e.confidence < 75 * ScoreUnit)
            /\ e.level = "low" <=>
                   (25 * ScoreUnit <= e.confidence /\ e.confidence < 50 * ScoreUnit)

\* autoMap has created a medium entry and a low entry, and left a column
\* whose best score is below 0.25 without an entry
Wit_C18_MediumLowAndNone ==
    /\ lastMap.op = "autoMap"
    /\ \E e \in AutoEntriesMade : e.level = "medium"
    /\ \E e \in AutoEntriesMade : e.level = "low"
    /\ Len(lastMap.result) < Len(columns)

(* -------------------------- claims on validation ---------------------- *)

\* null, undefined, or blank after trimming
Blank(value) == value = NULL \/ value = UNDEFINED \/ Trim(String(value)) = <<>>

\* C19: validate checks required first: on a required field of any type a
\* null, undefined or blank value gives valid = false with the required-empty
\* error, and no rule of the type is applied (no coerced value is returned).
Thm_C19_RequiredFirst ==
    (lastValid.op = "validate" /\ vField.required /\ Blank(vValue)) =>
        /\ lastValid.result.valid = FALSE
        /\ lastValid.result.error = "Required field cannot be empty"
        /\ lastValid.result.value = UNDEFINED

\* a blank text validated for a required number field, whose own rule would
\* have accepted it as the empty string
Wit_C19_BlankOnRequiredNumber ==
    /\ lastValid.op = "validate"
    /\ vField.required /\ typeOf(vField) = "number"
    /\ vValue = <<" ">>
    /\ validateNumber(vValue, vField) = Valid(<<>>)
    /\ ~lastValid.result.valid

\* the input as the options are compared with it
SelectInput == toLowerCase(Trim(String(vValue)))

ValueHits == {i \in 1..Len(vField.options) :
                 toLowerCase(vField.options[i].value) = SelectInput}

TextHits == {i \in 1..Len(vField.options) :
                toLowerCase(Trim(vField.options[i].text)) = SelectInput}

PartialHits == {i \in 1..Len(vField.options) :
                   \/ IncludesText(toLowerCase(vField.options[i].text), SelectInput)
                   \/ IncludesText(SelectInput, toLowerCase(Trim(vField.options[i].text)))}

\* the result is valid and carries the value of one of the options in hits
ResolvedIn(hits) ==
    /\ lastValid.result.valid
    /\ \E i \in hits : lastValid.result.value = vField.options[i].value

\* the priority order of the three kinds of match
SelectPriority ==
    IF ValueHits # {} THEN ResolvedIn(ValueHits)
    ELSE IF TextHits # {} THEN ResolvedIn(TextHits)
    ELSE IF PartialHits # {} THEN ResolvedIn(PartialHits)
    ELSE ~lastValid.result.valid

\* C20: validateSelect resolves every non-blank value against a non-empty
\* option list in priority order, case-insensitively: a match on an option's
\* value, else an exact match on a display text, else a partial match; the
\* coerced value is the matched option's value.
CE_C20_SelectPriorityOrder ==
    (lastValid.op = "validateSelect" /\ ~Blank(vValue) /\ vField.options # <<>>) =>
        SelectPriority

\* the same order, for the values that are not the number 0
SelectPriorityOnTruthyValues ==
    (lastValid.op = "validateSelect" /\ ~Blank(vValue) /\ ~Falsy(vValue)
        /\ vField.options # <<>>) => SelectPriority

(* ------------------------ claims on the calls' objects ---------------- *)

\* C13: autoMap, mergeMappings and applySavedProfile return a new Mapping and
\* leave their arguments unchanged: each call adds one object, returns it,
\* and every object that existed before the call (the input mappings, the
\* manual-edit map, the field list, the columns, earlier results) keeps its
\* contents.
Thm_C13_CallsLeaveArgumentsUnchanged ==
    [][/\ Len(heap') = Len(heap) + 1
       /\ lastCall'.result = Len(heap) + 1
       /\ \A ref \in 1..Len(heap) : heap'[ref] = heap[ref]]_vars

\* mergeMappings called on the mapping an earlier autoMap returned: the result
\* is a further object, with entries, and differs from the mapping it was
\* built from
Wit_C13_MergeOfReturnedMapping ==
    /\ lastCall.op = "mergeMappings"
    /\ lastCall.args[1] = Refs.profile + 1
    /\ lastCall.result = Refs.profile + 2
    /\ heap[lastCall.args[1]] # <<>>
    /\ heap[lastCall.result] # <<>>
    /\ heap[lastCall.result] # heap[lastCall.args[1]]
    /\ MapKeys(heap[lastCall.result]) = MapKeys(heap[lastCall.args[1]])

(* ---------------------- claims on the string utilities ---------------- *)

RECURSIVE EditDistance(_, _)
\* the least number of single-character insertions, deletions and
\* substitutions that turn a into b
EditDistance(a, b) ==
    IF a = <<>> THEN Len(b)
    ELSE IF b = <<>> THEN Len(a)
    ELSE Min2(Min2(EditDistance(Tail(a), b) + 1, EditDistance(a, Tail(b)) + 1),
              EditDistance(Tail(a), Tail(b)) + (IF Head(a) = Head(b) THEN 0 ELSE 1))

\* C21: levenshtein(a, b) is the unit-cost edit distance of a and b for all
\* words over the alphabet up to the length bound, and the length of the
\* other string when one of them is empty.
Thm_C21_LevenshteinIsEditDistance ==
    (lastText.op = "levenshtein" /\ textA \in Words /\ textB \in Words) =>
        /\ lastText.result = EditDistance(textA, textB)
        /\ textA = <<>> => lastText.result = Len(textB)
        /\ textB = <<>> => lastText.result = Len(textA)

\* a pair that needs a substitution, an insertion and a kept character
Wit_C21_SubstituteInsertKeep ==
    /\ lastText.op = "levenshtein"
    /\ textA = <<"a", "b">>
    /\ textB = <<"c", "b", "a">>
    /\ lastText.result = 2

PhoneMobileCall ==
    lastText.op = "levenshtein" /\ textA = TextPhone /\ textB = TextMobile

\* C22 (as the code computes it): levenshtein("phone", "mobile") is the
\* standard edit distance of the two words, which is 5.
Thm_C22_PhoneMobileIsFive ==
    PhoneMobileCall =>
        lastText.result = EditDistance(TextPhone, TextMobile) /\ lastText.result = 5

Wit_C22_PhoneMobileCalled == PhoneMobileCall /\ lastText.result = 5

\* C22 as stated: levenshtein("phone", "mobile") is 7.
CE_C22_PhoneMobileIsSeven == PhoneMobileCall => lastText.result = 7

\* the tokens of a string, as a set
TokenSet(str) == {tokenize(str)[k] : k \in 1..Len(tokenize(str))}

\* |A \cap B| / max(|A|, |B|) in units of 1/ScoreUnit, 0 when both are empty
SetOverlap(A, B) ==
    IF A = {} /\ B = {} THEN 0
    ELSE (Cardinality(A \cap B) * ScoreUnit) \div Max2(Cardinality(A), Cardinality(B))

\* C23: tokenOverlap(a, b) is the overlap of the two token sets, repeated
\* tokens included, is 1 when both strings have the same token set, and is
\* the same in both argument orders.
CE_C23_TokenOverlapIsSetOverlap ==
    lastText.op = "tokenOverlap" =>
        /\ lastText.result = SetOverlap(TokenSet(textA), TokenSet(textB))
        /\ (TokenSet(textA) = TokenSet(textB) /\ TokenSet(textA) # {}) =>
               lastText.result = ScoreUnit
        /\ lastText.result = tokenOverlap(textB, textA)

\* the code's quotient agrees with the set quotient when no token repeats
TokenOverlapOnDistinctTokens ==
    (/\ lastText.op = "tokenOverlap"
     /\ Cardinality(TokenSet(textA)) = Len(tokenize(textA))
     /\ Cardinality(TokenSet(textB)) = Len(tokenize(textB))) =>
        /\ lastText.result = SetOverlap(TokenSet(textA), TokenSet(textB))
        /\ lastText.result = tokenOverlap(textB, textA)

\* the spellings of one name: camelCase and its separated forms
NameForms == {TextCamel, TextSnake, TextSpaced}

\* C24: a camelCase name and its separated forms (firstName, first_name,
\* first name) normalize to the same lowercase string with single spaces
\* and tokenize to the same tokens.
CE_C24_CamelCaseNormalizesLikeSeparated ==
    (lastText.op \in {"normalize", "tokenize"} /\ textA \in NameForms /\ textB \in NameForms) =>
        /\ lastText.result[1] = lastText.result[2]
        /\ lastText.op = "normalize" => lastText.result[1] = TextSpaced
        /\ lastText.op = "tokenize" =>
               lastText.result[1] = <<SubSeq(TextSpaced, 1, 5), SubSeq(TextSpaced, 7, 10)>>

\* the forms written with separators do normalize and tokenize alike
SeparatedFormsAgree ==
    (/\ lastText.op \in {"normalize", "tokenize"}
     /\ {textA, textB} \subseteq {TextSnake, TextSpaced, TextHyphen, TextDotted, TextPadded}) =>
        /\ lastText.result[1] = lastText.result[2]
        /\ lastText.op = "normalize" => lastText.result[1] = TextSpaced

(* --------------------------- claims on synonyms ----------------------- *)

\* the two terms are listed in one group of the table
ShareGroup(a, b) == \E k \in 1..Len(SYNONYMS) : a \in GroupTerms(k) /\ b \in GroupTerms(k)

\* the groups that list the term
GroupsOf(a) == {k \in 1..Len(SYNONYMS) : a \in GroupTerms(k)}

\* C25: two terms that share a canonical group are synonymous in either
\* argument order, and the synonym factor of such a column and field is 1.
CE_C25_SharedGroupIsSynonymous ==
    ShareGroup(textA, textB) =>
        /\ lastText.op = "areSynonyms" => lastText.result = TRUE
        /\ lastText.op = "synonymScore" => lastText.result = ScoreUnit

\* it holds for the terms that the table lists in one group only
SharedGroupOfSingleListedTerms ==
    (/\ ShareGroup(textA, textB)
     /\ Cardinality(GroupsOf(textA)) = 1
     /\ Cardinality(GroupsOf(textB)) = 1) =>
        /\ lastText.op = "areSynonyms" => lastText.result = TRUE
        /\ lastText.op = "synonymScore" => lastText.result = ScoreUnit

(* ------------------------ claims on the batch loop -------------------- *)

\* entry k of invocation b's results is the result of a row that failed
FailedRowAt(b, k) == ~batch[b].results[k].aborted /\ ~batch[b].results[k].success

Waiting(b) == \E t \in 1..Len(timers) : timers[t] = b

\* C26: with stopOnError set, a row whose fillRow is not successful is the last
\* entry of its invocation's results: the invocation has returned, waits for
\* no delay, holds no aborted marker, and has processed no later row; an
\* invocation that returned after a successful row has processed every row.
Thm_C26_BatchStopsAtFirstFailedRow ==
    reqSettings.stopOnError =>
        \A b \in BatchIds :
            LET r == batch[b].results IN
            /\ \A k \in 1..Len(r) :
                   FailedRowAt(b, k) =>
                       /\ k = Len(r)
                       /\ r[k].row = k - 1
                       /\ Returned(b)
                       /\ ~Waiting(b)
                       /\ ~HasMarker(b)
                       /\ \A j \in 1..(k - 1) : r[j].success
            /\ (Returned(b) /\ r # <<>> /\ ~r[Len(r)].aborted /\ r[Len(r)].success) =>
                   Len(r) = Len(reqRows)

\* three rows of which the second fails: the batch returns two results
Wit_C26_StoppedAtSecondOfThree ==
    \E b \in BatchIds :
        /\ reqSettings.stopOnError
        /\ Returned(b)
        /\ Len(reqRows) = 3
        /\ Len(batch[b].results) = 2
        /\ batch[b].results[1].success
        /\ FailedRowAt(b, 2)

Markers(b) == {k \in 1..Len(batch[b].results) : batch[b].results[k].aborted}

\* C27: in the results of every invocation the aborted marker occurs at most
\* once and only as the last entry of a returned invocation, its row index is
\* the number of rows processed before it, and the entries before it are the
\* results of rows 0..k-1 in increasing order.
Thm_C27_MarkerIsLastAndCountsRows ==
    \A b \in BatchIds :
        LET r == batch[b].results IN
        /\ Cardinality(Markers(b)) <= 1
        /\ \A k \in 1..Len(r) : r[k].row = k - 1
        /\ \A k \in Markers(b) :
               /\ k = Len(r)
               /\ Returned(b)
               /\ r[k] = [row |-> Len(RowResults(b)), aborted |-> TRUE]
               /\ \A j \in 1..(k - 1) : ~r[j].aborted /\ r[j].row = j - 1

\* a batch stopped after two of its three rows
Wit_C27_MarkerAfterTwoRows ==
    \E b \in BatchIds :
        /\ Returned(b)
        /\ Len(reqRows) = 3
        /\ Len(batch[b].results) = 3
        /\ Markers(b) = {3}
        /\ batch[b].results[3].row = 2

\* C28: an invocation has sent exactly one progress message per row it has
\* processed and none for the aborted marker; message k carries current = k
\* (the row index + 1), total = rows.length and that row's result, and it is
\* already sent when the invocation stops on the row's error, waits in the
\* delay after the row or has gone on to the next row.
Thm_C28_OneProgressPerRow ==
    \A b \in BatchIds :
        LET r == RowResults(b)
            e == batch[b].progress
        IN /\ Len(e) = Len(r)
           /\ \A k \in 1..Len(e) :
                  /\ e[k].current = k
                  /\ e[k].current = r[k].row + 1
                  /\ e[k].total = Len(reqRows)
                  /\ e[k].success = r[k].success
                  /\ e[k].filled = r[k].filled
                  /\ e[k].skipped = r[k].skipped
                  /\ e[k].errors = r[k].errors

\* one invocation waits in the delay with its first row reported, and
\* another has returned two reports and the marker
Wit_C28_ReportedBeforeDelayAndMarker ==
    \E b, c \in BatchIds :
        /\ InFlight(b)
        /\ Len(batch[b].progress) = 1
        /\ Returned(c)
        /\ HasMarker(c)
        /\ Len(batch[c].results) = 3
        /\ Len(batch[c].progress) = 2
        /\ batch[c].progress[2].current = 2

\* C29: an invocation is only ever found suspended in the delay between two
\* rows: the delay is positive, the row before it is not the last and is
\* complete (its result appended and its progress message sent, no marker),
\* and one timer is pending for it; every other invocation has not started
\* or has run to its end, so that a stop() is only handled between rows.
Thm_C29_SuspendedOnlyInDelay ==
    \A b \in BatchIds :
        /\ batch[b].pc \in {"unused", "delay", "returned", "threw"}
        /\ Waiting(b) <=> InFlight(b)
        /\ Cardinality({t \in 1..Len(timers) : timers[t] = b}) <= 1
        /\ InFlight(b) =>
               /\ reqSettings.delay > 0
               /\ batch[b].i < Len(reqRows) - 1
               /\ Len(batch[b].results) = batch[b].i + 1
               /\ Len(batch[b].progress) = batch[b].i + 1
               /\ ~HasMarker(b)
        /\ stopAt[b] >= 0 => stopAt[b] \in 1..(Len(reqRows) - 1)

\* stop() reached an invocation that waits between its second and third row
Wit_C29_StopHandledBetweenRows ==
    \E b \in BatchIds :
        /\ InFlight(b)
        /\ batch[b].i = 1
        /\ Len(reqRows) = 3
        /\ stopAt[b] = 2
        /\ abortController.aborted

(* -------------------------- claims on fillField ----------------------- *)

\* entry k of the recorded fillRow request was handed to fillField
Attempted(k) ==
    /\ HasSelector(k)
    /\ \E n \in 1..Len(lastFill.result.attempted) :
           lastFill.result.attempted[n] = reqMapping[k].column

\* the target of entry k before and after the recorded request
Was(k) == lastFill.before[reqMapping[k].selector]
Now(k) == lastFill.result.dom[reqMapping[k].selector]

TargetExists(k) == Was(k) # ABSENT

\* skipFilled is set and the target held a non-blank value
AlreadyFilled(k) == reqSettings.skipFilled /\ TargetExists(k) /\ Trim(Was(k)) # <<>>

\* what the Validator says to the row's value for entry k
Validation(k) ==
    validate(RowValue(reqRows[lastFill.row], reqMapping[k].column), FieldMeta(reqMapping[k]))

\* C30: fillField writes to a target only when the target exists, is not
\* skipped and the value is valid; a target that is missing, skipped or given
\* an invalid value keeps its value, and a filled target under skipFilled is
\* counted as skipped, not as an error, even when the value is invalid.
Thm_C30_WritesOnlyValidUnskipped ==
    lastFill.called =>
        LET res == lastFill.result IN
        /\ \A k \in 1..Len(reqMapping) :
               HasSelector(k) =>
                   /\ Now(k) # Was(k) =>
                          /\ Attempted(k) /\ TargetExists(k) /\ ~AlreadyFilled(k)
                          /\ Validation(k).valid
                   /\ (Attempted(k) /\ ~TargetExists(k)) =>
                          /\ Now(k) = Was(k)
                          /\ Cardinality(ErrorsFor(res, k)) = 1
                   /\ (Attempted(k) /\ AlreadyFilled(k)) =>
                          /\ Now(k) = Was(k)
                          /\ ErrorsFor(res, k) = {}
                   /\ (Attempted(k) /\ TargetExists(k) /\ ~AlreadyFilled(k)
                          /\ ~Validation(k).valid) =>
                          /\ Now(k) = Was(k)
                          /\ \E e \in ErrorsFor(res, k) :
                                 res.errors[e].error = Validation(k).error
                   /\ (Attempted(k) /\ TargetExists(k) /\ ~AlreadyFilled(k)
                          /\ Validation(k).valid) =>
                          /\ ErrorsFor(res, k) = {}
                          /\ Now(k) = String(IF Validation(k).value # UNDEFINED
                                             THEN Validation(k).value
                                             ELSE RowValue(reqRows[lastFill.row],
                                                           reqMapping[k].column))
        /\ res.skipped = Cardinality({k \in 1..Len(reqMapping) :
                                         Attempted(k) /\ AlreadyFilled(k)})

\* one request in which a filled target is skipped although its value is
\* invalid, a second target is refused for its value and a third is missing
Wit_C30_SkippedInvalidRefusedMissing ==
    /\ lastFill.called
    /\ reqSettings.skipFilled
    /\ \E k, j, m \in 1..Len(reqMapping) :
           /\ Attempted(k) /\ AlreadyFilled(k) /\ ~Validation(k).valid
           /\ Attempted(j) /\ TargetExists(j) /\ ~AlreadyFilled(j) /\ ~Validation(j).valid
           /\ Attempted(m) /\ ~TargetExists(m)
    /\ lastFill.result.skipped = 1
    /\ Len(lastFill.result.errors) = 2
    /\ lastFill.result.dom = lastFill.before

(* ------------------------ claims on fillRow's loop -------------------- *)

\* the entries of the request's mapping that have a selector
WithSelector == {k \in 1..Len(reqMapping) : HasSelector(k)}

\* C31: without stopOnError, fillRow hands every mapping entry that has a
\* selector to fillField exactly once and in mapping order, returns success
\* exactly when errors is empty, and filled + skipped + errors.length is the
\* number of such entries; an entry without a selector is counted nowhere.
Thm_C31_FillRowVisitsEveryEntry ==
    (lastFill.called /\ ~reqSettings.stopOnError) =>
        LET res == lastFill.result IN
        /\ res.attempted = ColumnsUpTo(Len(reqMapping))
        /\ res.success = (res.errors = <<>>)
        /\ res.filled + res.skipped + Len(res.errors) = Cardinality(WithSelector)
        /\ \A k \in 1..Len(reqMapping) :
               /\ Cardinality(ErrorsFor(res, k)) <= 1
               /\ ~HasSelector(k) =>
                      /\ ErrorsFor(res, k) = {}
                      /\ \A n \in 1..Len(res.attempted) :
                             res.attempted[n] # reqMapping[k].column
        /\ \A m, n \in 1..Len(res.errors) :
               m < n =>
                   \E j, k \in WithSelector :
                       /\ j < k
                       /\ res.errors[m].column = reqMapping[j].column
                       /\ res.errors[n].column = reqMapping[k].column

\* a mapping with an entry that has no selector: of the two others one is
\* skipped or filled and one fails
Wit_C31_UnmappedEntryPassedOver ==
    /\ lastFill.called /\ ~reqSettings.stopOnError
    /\ Len(reqMapping) = 3
    /\ Cardinality(WithSelector) = 2
    /\ Len(lastFill.result.errors) = 1
    /\ lastFill.result.filled + lastFill.result.skipped = 1
    /\ ~lastFill.result.success

(* ----------------------- claims on autoMap's order -------------------- *)

\* the pairs autoMap scored, in the order of its two loops
ScoredPairs == lastMap.pairs

PairIds == 1..Len(ScoredPairs)

\* pair n is the entry of its column in the mapping returned
Assigned(n) ==
    /\ MapHas(lastMap.result, ScoredPairs[n].column)
    /\ MapGet(lastMap.result, ScoredPairs[n].column).selector =
           ScoredPairs[n].field.selector

\* two different pairs want the same column or the same field
Compete(m, n) ==
    /\ m # n
    /\ \/ ScoredPairs[m].column = ScoredPairs[n].column
       \/ ScoredPairs[m].field.selector = ScoredPairs[n].field.selector

\* pair r is tried before pair m: higher score, or equal score and earlier
TriedBefore(r, m) ==
    \/ ScoredPairs[r].score > ScoredPairs[m].score
    \/ ScoredPairs[r].score = ScoredPairs[m].score /\ r < m

\* pair m finds its column or its field taken when its turn comes
Blocked(m) == \E r \in PairIds : Assigned(r) /\ Compete(r, m) /\ TriedBefore(r, m)

HoldersOf(selector) ==
    {i \in 1..Len(lastMap.result) : lastMap.result[i].value.selector = selector}

ManualWins ==
    \A i \in 1..Len(manualOverrides) :
        LET col == manualOverrides[i].key
            selector == manualOverrides[i].value
        IN  IF Falsy(selector) THEN ~MapHas(currentMapping, col)
            ELSE /\ MapHas(currentMapping, col)
                 /\ MapGet(currentMapping, col).selector = selector
                 /\ MapGet(currentMapping, col).source = "manual"

\* the session mapping is the one runAutoMap leaves for the manual
\* selections made so far
AutoMapped ==
    /\ Len(manualOverrides) > 0
    /\ currentMapping =
          mergeMappings(autoMap(columns, detectedFields, dataTypes),
                        manualOverrides, detectedFields)

\* runAutoMap itself leaves every latest manual selection in place
ManualWinsRightAfterAutoMap == AutoMapped => ManualWins

\* C34: after manual selections followed by runAutoMap, every column whose
\* latest manual selection is a non-empty selector maps to it with source
\* manual and every column whose latest selection is empty is unmapped, and
\* this stays so over the steps that follow (clearMappings empties the manual
\* selections, so it keeps it trivially).
CE_C34_ManualSurvivesAutoMap == [][AutoMapped => ManualWins']_vars

(* The content script under fillBatch and stopFill requests, with the last
   stopFill kept for inspection. *)

\* the invocations of fillBatch made so far
StartedBatches == {b \in BatchIds : batch[b].pc # "unused"}

\* no invocation of fillBatch is suspended in its delay
NoneRunning == \A b \in BatchIds : ~InFlight(b)

\* the stopFill message, with what it met kept for inspection: whether a batch
\* was running, and how many invocations had been made
StopFillRecorded ==
    /\ StopFill
    /\ lastCall' = [op |-> "stop", args |-> <<~NoneRunning>>,
                    result |-> Cardinality(StartedBatches)]
    /\ UNCHANGED <<popupVars, mapVars, profileVars, previewVars, validVars, textVars, storageVars, heap>>

NextStop ==
    \/ \E b \in BatchIds : RequestFillBatch(b)
    \/ TimerFires
    \/ StopFillRecorded

SpecStop == Init /\ [][NextStop]_vars

\* invocation b was made after the last stopFill
AfterLastStop(b) == lastCall.op = "stop" /\ b > lastCall.result /\ b \in StartedBatches

\* C35: stop() called while no batch is running changes nothing of the
\* content script's state; an invocation of fillBatch made after the last
\* stop() is never aborted; every invocation leaves its first run with a
\* fresh, unset flag in the holder if it suspends, and every invocation that
\* returns leaves the holder null.
Thm_C35_IdleStopIsNoOp ==
    /\ [](\A b \in BatchIds : AfterLastStop(b) => ~HasMarker(b))
    /\ [][/\ (StopFillRecorded /\ NoneRunning) =>
                 /\ abortController = NoController
                 /\ UNCHANGED <<fillVars, popupVars, mapVars>>
          /\ \A b \in BatchIds :
                /\ (batch[b].pc = "unused" /\ batch'[b].pc = "delay") =>
                       abortController' = FreshController
                /\ (batch[b].pc # "returned" /\ batch'[b].pc = "returned") =>
                       abortController' = NoController]_vars

\* stop() came while nothing was running, and the batch started after it has
\* processed a row, waited and returned with every row and no marker
Wit_C35_BatchAfterIdleStopRunsThrough ==
    /\ lastCall.op = "stop"
    /\ lastCall.args = <<FALSE>>
    /\ \E b \in BatchIds :
          /\ AfterLastStop(b)
          /\ Returned(b)
          /\ reqSettings.delay > 0
          /\ Len(reqRows) > 1
          /\ Len(RowResults(b)) = Len(reqRows)
          /\ ~HasMarker(b)
    /\ abortController = NoController

Sources == {"auto", "manual", "profile"}

\* the entry carries a source property, one of the three
HasSource(info) == "source" \in DOMAIN info /\ info.source \in Sources

\* C36: every entry of the session mapping carries a source in
\* {auto, manual, profile}.
CE_C36_EveryEntryHasSource ==
    \A i \in 1..Len(currentMapping) : HasSource(currentMapping[i].value)

\* the columns whose entry was created by a manual selection and is still
\* what that selection wrote
ManualColumns ==
    {manualOverrides[i].key : i \in {j \in 1..Len(manualOverrides) :
        /\ MapHas(currentMapping, manualOverrides[j].key)
        /\ MapGet(currentMapping, manualOverrides[j].key) =
               ManualEntry(detectedFields, manualOverrides[j].value)}}

\* the second half of C36: an entry created by a manual selection keeps
\* source manual while manual selections are made on other columns
ManualSourceKeptOnOtherSelections ==
    [][\A col \in ManualColumns :
          (/\ MapHas(manualOverrides', col)
           /\ MapGet(manualOverrides', col) = MapGet(manualOverrides, col)
           /\ manualOverrides' # manualOverrides) =>
              /\ MapHas(currentMapping', col)
              /\ MapGet(currentMapping', col).source = "manual"]_vars

\* the entries of the request's mapping whose column the row lacks or holds
\* as null, with a target that is not required
AbsentValueEntries ==
    {k \in 1..Len(reqMapping) :
        /\ HasSelector(k)
        /\ ~reqMapping[k].field.required
        /\ RowValue(reqRows[lastFill.row], reqMapping[k].column) \in {UNDEFINED, NULL}}

\* C37: when a mapped column is missing from the row or null and the field is
\* not required, fillRow leaves the target as it was or blank, and never
\* writes the text "undefined" or "null" to it.
CE_C37_AbsentValueNotWrittenAsText ==
    lastFill.called =>
        \A k \in AbsentValueEntries :
            LET now == lastFill.result.dom[reqMapping[k].selector]
                was == lastFill.before[reqMapping[k].selector]
            IN  /\ now \in {was, <<>>}
                /\ now \notin {String(UNDEFINED), String(NULL)}

\* the columns of the session mapping whose selector a detected field has
LiveSessionColumns ==
    {currentMapping[i].key : i \in {j \in 1..Len(currentMapping) :
        fieldSelectorsHas(detectedFields, currentMapping[j].value.selector)}}

StorageSettled ==
    /\ Len(storageOps) > 0
    /\ StorageInFlight = {}
    /\ \A o, q \in 1..Len(storageOps) : storageOps[o].domain = storageOps[q].domain => o = q

\* every saved profile is stored and every deleted profile is not
NothingLost ==
    \A o \in 1..Len(storageOps) :
        /\ storageOps[o].kind = "saveProfile" => MapHas(profiles, storageOps[o].domain)
        /\ storageOps[o].kind = "deleteProfile" => ~MapHas(profiles, storageOps[o].domain)

\* C39: when saveProfile, deleteProfile and updateProfileLastUsed for different
\* domains overlap, after all of them have completed every saved profile is
\* present and every deleted profile is absent.
CE_C39_StorageLosesNoUpdate == StorageSettled => NothingLost

\* calls that do not overlap lose nothing
SequentialStorageLosesNothing ==
    (StorageSettled /\ \A o \in 1..Len(storageOps) : storageOps[o].lone) => NothingLost

(* The same requests with every pending delay timer firing in the end:
   setTimeout callbacks are run once their delay has passed. *)

\* batches with a delay between their rows, on a page with every target empty
InitFair ==
    /\ Init
    /\ dom = DomEmpty
    /\ reqSettings.delay > 0
    /\ ~reqSettings.skipFilled

SpecStopFair == InitFair /\ [][NextStop]_vars /\ WF_vars(TimerFires)

\* C40: provided each inter-row delay timer eventually fires, every fillBatch
\* invocation that is suspended in a delay returns in the end, as Completed
\* or as Stopped.
CE_C40_EveryBatchCompletes ==
    \A b \in BatchIds : (batch[b].pc = "delay") ~> (batch[b].pc = "returned")

\* every suspended invocation ends, by returning or by throwing
EveryBatchEnds ==
    \A b \in BatchIds : (batch[b].pc = "delay") ~> (batch[b].pc \in {"returned", "threw"})

\* no invocation processes more rows than it was given
AtMostEveryRow == \A b \in BatchIds : Len(RowResults(b)) <= Len(reqRows)

====
